---- MODULE Spec2Model ----
(***************************************************************************)
(* Model of the visibility decision core of satlight                        *)
(* (src/src/satlight/visibility.py): the per-satellite pass cache with      *)
(* failure backoff, the round-robin fetch scheduler of visible_now, and the *)
(* elevation-threshold window computed by linear interpolation.             *)
(*                                                                          *)
(* Optional values (Python's Optional[...]) are sequences of length 0 or 1: *)
(* None is <<>> and a present value v is <<v>>.                             *)
(* Times are whole seconds; altitudes are whole degrees.                    *)
(***************************************************************************)
EXTENDS Integers, Sequences, FiniteSets, TLC

None == <<>>
Some(x) == <<x>>
IsSome(o) == Len(o) = 1
Val(o) == o[1]

(***************************************************************************)
(* Raw JSON field values of a pass object.  k = "num": a JSON number,       *)
(* "str": a string holding a number, "bad": a string that is not a number,  *)
(* "none": the key is missing (dict.get gives None).                        *)
(***************************************************************************)
Num(v) == [k |-> "num", v |-> v]
Str(v) == [k |-> "str", v |-> v]
Bad == [k |-> "bad", v |-> 0]
Missing == [k |-> "none", v |-> 0]

Point(ts, alt) == [utc_timestamp |-> ts, alt |-> alt]
Pass(r, c, s) == [rise |-> r, culmination |-> c, set |-> s]

\* mutant of _parse_alt: whatever does not parse counts as 0 degrees
_parse_alt_lenient(value) == Some(value.v)

\* visibility.py:49-57
_parse_alt(value) ==
    IF value.k \in {"num", "str"} THEN Some(value.v) ELSE None

\* visibility.py:69-73
_safe_int(v) ==
    IF v.k \in {"num", "str"} THEN Some(v.v) ELSE None

\* mutant of _extract_set_ts: the rise point is read instead of the set point
_extract_set_ts_rise(pass_obj) ==
    IF pass_obj.rise.utc_timestamp.k \in {"num", "str"}
    THEN Some(pass_obj.rise.utc_timestamp.v) ELSE None

\* visibility.py:60-65
_extract_set_ts(pass_obj) ==
    IF pass_obj.set.utc_timestamp.k \in {"num", "str"}
    THEN Some(pass_obj.set.utc_timestamp.v) ELSE None

\* mutant of RoundHalfEven: the fraction of a second is cut off
RoundHalfEven_truncate(p, q) == p \div q

(***************************************************************************)
(* Python's round() on the exact quotient p / q (q > 0): nearest integer,   *)
(* ties to the even neighbour.  (At an exact tie the float product of the   *)
(* code decides between the two neighbours; both are nearest.)              *)
(***************************************************************************)
RoundHalfEven(p, q) ==
    LET fl == p \div q
        r  == p - fl * q
    IN  IF 2 * r < q THEN fl
        ELSE IF 2 * r > q THEN fl + 1
        ELSE IF fl % 2 = 0 THEN fl ELSE fl + 1

\* mutant of _cross_time: a crossing at either end of the segment is none
_cross_time_endsExcluded(t1, a1, t2, a2, m) ==
    IF a1 = a2 THEN (IF a1 >= m THEN Some(t1) ELSE None)
    ELSE LET num == m - a1
             den == a2 - a1
             outside == \/ (den > 0 /\ (num <= 0 \/ num >= den))
                        \/ (den < 0 /\ (num >= 0 \/ num <= den))
             sgn == IF den > 0 THEN 1 ELSE -1
         IN  IF outside THEN None
             ELSE Some(RoundHalfEven(sgn * (t1 * den + num * (t2 - t1)), sgn * den))

\* visibility.py:82-96
_cross_time(t1, a1, t2, a2, m) ==
    IF a1 = a2 THEN (IF a1 >= m THEN Some(t1) ELSE None)
    ELSE LET num == m - a1
             den == a2 - a1
             \* f = num / den;  f < 0 or f > 1
             outside == \/ (den > 0 /\ (num < 0 \/ num > den))
                        \/ (den < 0 /\ (num > 0 \/ num < den))
             sgn == IF den > 0 THEN 1 ELSE -1
         IN  IF outside THEN None
             ELSE Some(RoundHalfEven(sgn * (t1 * den + num * (t2 - t1)), sgn * den))

\* mutant of PeakReaches: the peak test is left out
PeakReaches_always(ac, min_elev) == TRUE

\* visibility.py:125-127: the pass qualifies only if its peak reaches min_elev
PeakReaches(ac, min_elev) == ~(ac < min_elev)

\* visibility.py:129-136: ascending leg, rise -> culmination
AscendingEnter(tr, ar, tc, ac, min_elev) ==
    IF ar >= min_elev THEN Some(tr)
    ELSE _cross_time(tr, ar, tc, ac, min_elev)

\* mutant of DescendingExit: the crossing is laid off backwards from the culmination
DescendingExit_backwards(tc, ac, ts, aS, min_elev) ==
    IF aS >= min_elev THEN ts
    ELSE LET t_exit_result == _cross_time(tc, ac, ts, aS, min_elev)
         IN  IF ~IsSome(t_exit_result) THEN ts ELSE 2 * tc - Val(t_exit_result)

\* visibility.py:138-146: descending leg, culmination -> set
DescendingExit(tc, ac, ts, aS, min_elev) ==
    IF aS >= min_elev THEN ts
    ELSE LET t_exit_result == _cross_time(tc, ac, ts, aS, min_elev)
         IN  IF ~IsSome(t_exit_result) THEN ts ELSE Val(t_exit_result)

\* visibility.py:100-150
_compute_threshold_window(pass_obj, min_elev) ==
    LET tr == _safe_int(pass_obj.rise.utc_timestamp)
        tc == _safe_int(pass_obj.culmination.utc_timestamp)
        ts == _safe_int(pass_obj.set.utc_timestamp)
        ar == _parse_alt(pass_obj.rise.alt)
        ac == _parse_alt(pass_obj.culmination.alt)
        aS == _parse_alt(pass_obj.set.alt)
    IN  IF ~IsSome(tr) \/ ~IsSome(tc) \/ ~IsSome(ts) THEN None
        ELSE IF ~IsSome(ar) \/ ~IsSome(ac) \/ ~IsSome(aS) THEN None
        ELSE IF ~PeakReaches(Val(ac), min_elev) THEN None
        ELSE LET t_enter == AscendingEnter(Val(tr), Val(ar), Val(tc), Val(ac), min_elev)
                 t_exit  == DescendingExit(Val(tc), Val(ac), Val(ts), Val(aS), min_elev)
             IN  IF ~IsSome(t_enter) THEN None
                 ELSE Some(<<Val(t_enter), t_exit>>)

\* which of the two guards of _compute_threshold_window a call runs into:
\* the return of 'never' after an ascending leg without crossing
\* (visibility.py:134-135) and the fallback to the set time after a
\* descending leg without crossing (visibility.py:143-144)
GuardsTaken(pass_obj, min_elev) ==
    LET tr == _safe_int(pass_obj.rise.utc_timestamp)
        tc == _safe_int(pass_obj.culmination.utc_timestamp)
        ts == _safe_int(pass_obj.set.utc_timestamp)
        ar == _parse_alt(pass_obj.rise.alt)
        ac == _parse_alt(pass_obj.culmination.alt)
        aS == _parse_alt(pass_obj.set.alt)
        reached == /\ IsSome(tr) /\ IsSome(tc) /\ IsSome(ts)
                   /\ IsSome(ar) /\ IsSome(ac) /\ IsSome(aS)
                   /\ PeakReaches(Val(ac), min_elev)
        ascending_never ==
            /\ reached
            /\ ~(Val(ar) >= min_elev)
            /\ ~IsSome(_cross_time(Val(tr), Val(ar), Val(tc), Val(ac), min_elev))
        descending_fallback ==
            /\ reached
            /\ ~ascending_never
            /\ ~(Val(aS) >= min_elev)
            /\ ~IsSome(_cross_time(Val(tc), Val(ac), Val(ts), Val(aS), min_elev))
    IN  [ascending_never |-> ascending_never, descending_fallback |-> descending_fallback]

\* mutant of _is_overhead_now: the exit edge of the window is not tested
_is_overhead_now_noExit(pass_obj, now_utc, min_elev) ==
    LET window == _compute_threshold_window(pass_obj, min_elev)
    IN  IF ~IsSome(window) THEN FALSE
        ELSE Val(window)[1] <= now_utc

\* mutant of _is_overhead_now: the entry edge of the window is excluded
_is_overhead_now_strict(pass_obj, now_utc, min_elev) ==
    LET window == _compute_threshold_window(pass_obj, min_elev)
    IN  IF ~IsSome(window) THEN FALSE
        ELSE Val(window)[1] < now_utc /\ now_utc <= Val(window)[2]

\* visibility.py:154-165
_is_overhead_now(pass_obj, now_utc, min_elev) ==
    LET window == _compute_threshold_window(pass_obj, min_elev)
    IN  IF ~IsSome(window) THEN FALSE
        ELSE Val(window)[1] <= now_utc /\ now_utc <= Val(window)[2]


(***************************************************************************)
(* Configuration and environment of the cycle model.                        *)
(***************************************************************************)
\* cfg.satellites: id -> color, in dict (insertion) order
SatItems == << <<25544, "blue">>, <<48915, "pink">> >>
\* a longer satellite list, for the round-robin scheduler
SatItems3 == SatItems \o << <<43013, "green">> >>
SatIds == {SatItems3[i][1] : i \in DOMAIN SatItems3}
\* cfg.min_elevation_deg
MinElev == 28

AppConfig(items) == [satellites |-> items, min_elevation_deg |-> MinElev]
Configs == {AppConfig(SatItems), AppConfig(<< >>)}

\* pass objects the Fetcher may return
PassGood  == Pass(Point(Num(1000), Str(10)), Point(Num(1100), Str(46)), Point(Num(1200), Str(10)))
PassNoSet == Pass(Point(Num(1000), Str(10)), Point(Num(1100), Str(46)), Point(Bad, Str(10)))
FetchOutcomes == {None, Some(PassGood), Some(PassNoSet)}

\* values of int(now_fn()) offered to a cycle
UtcValues == {1050, 1200, 1201}
\* max_fetches_per_tick: None or a cap
Caps == {None, Some(1)}
\* 10 * (2 * random.random() - 1), random.random() in {0.5, 0.75}
Jitters == {0, 5}
\* visibility.py:195 (base) and visibility.py:197 (cap), in seconds
BackoffBase == 60
BackoffCap == 3600

\* the monotonic clock advances between cycles by one of these, MaxTicks times
\* at most
MonoSteps == {BackoffBase}
MaxTicks == 2
MaxMono == MaxTicks * BackoffBase

\* largest k for which float(2 ** k) is representable (IEEE double);
\* 60.0 * (2 ** k) raises OverflowError for k > MaxFloatExp
MaxFloatExp == 1023

VARIABLES
    _CACHE,        \* sat_id -> Optional _CacheEntry
    _RR_IDX,       \* round-robin start index
    mono,          \* value mono_fn() returns
    pc,            \* position of the caller: "idle", "loop", "returned", "raised"
    cfg,           \* argument of the running visible_now call
    now_utc,       \* local of visible_now
    ordered,       \* local of visible_now
    pos,           \* index of the next element of ordered in the for loop
    max_fetches_per_tick,  \* argument of the running visible_now call
    fetch_budget,  \* local of visible_now
    results,       \* local of visible_now
    trace,         \* history: one record per finished loop iteration of this call
    rr0,           \* history: _RR_IDX when the running call began
    rrLog,         \* history: Fetcher calls of the current run of budget-1 cycles over
                   \* expired entries
    lastNoSet,     \* history: satellites for which the previous call stored a record
                   \* without set time
    resetFrom,     \* history: set by clear_cache_for_tests to the scheduler index and
                   \* the number of cache entries it found, until the next call returns
    unserved,      \* history: per satellite, the finished cycles in a row that it
                   \* began expired and ended without a Fetcher call for it
    failures,      \* history: per satellite, the Fetcher calls that returned nothing
                   \* since the last one that returned a record, or since the reset
    w_in,          \* window calculator: input (pass_obj, min_elev, now_utc)
    w_out,         \* window calculator: output
    f_in,          \* formatter: the pairs handed to format_line
    f_out,         \* formatter: the line it returned
    endpoint,      \* fetch_next_pass: the id asked for, and what the passes
                   \*   endpoint answers to the first and the second request
    attempt,       \* fetch_next_pass: the loop variable (0 before the loop)
    http_log,      \* fetch_next_pass: the requests sent, with their answers
    fetch_out,     \* fetch_next_pass: how the call ended
    e_pc,          \* emitter: where run_once / the body of run_forever is
    outputs,       \* emitter: cfg.outputs
    do_sleep,      \* emitter: run_once's flag (run_forever always sleeps)
    t0,            \* emitter: monotonic time at the start of the cycle
    e_pairs,       \* emitter: pairs, what visible_now returned
    line,          \* emitter: the formatted line
    out_idx,       \* emitter: position of _emit_to_outputs in cfg.outputs
    sink_calls,    \* emitter: the sink calls of this cycle, and how each ended
    elapsed,       \* emitter: monotonic time the cycle took
    sleep_delay,   \* emitter: delay = _PERIOD_SEC - elapsed
    cycles         \* emitter: the finished cycles: start, duration, sleep

vars == << _CACHE, _RR_IDX, mono, pc, cfg, now_utc, ordered, pos, max_fetches_per_tick,
           fetch_budget, results, trace, rr0, rrLog, lastNoSet, resetFrom, unserved, failures, w_in, w_out,
           f_in, f_out, endpoint, attempt, http_log, fetch_out,
           e_pc, outputs, do_sleep, t0, e_pairs, line, out_idx, sink_calls, elapsed,
           sleep_delay, cycles >>
cycleVars == << _CACHE, _RR_IDX, mono, pc, cfg, now_utc, ordered, pos, max_fetches_per_tick,
                fetch_budget, results, trace, rr0, rrLog, lastNoSet, resetFrom, unserved, failures >>
windowVars == << w_in, w_out >>
formatVars == << f_in, f_out >>
fetchVars == << endpoint, attempt, http_log, fetch_out >>
emitVars == << e_pc, outputs, do_sleep, t0, e_pairs, line, out_idx, sink_calls, elapsed,
              sleep_delay, cycles >>
\* the variables of everything around the visibility core
peripheryVars == << formatVars, fetchVars, emitVars >>

\* mutant of _CacheEntry: the set time is not kept
_CacheEntry_noSetTs(pass_obj, set_ts, retry_after, fail_streak) ==
    [pass_obj |-> pass_obj, set_ts |-> 0, retry_after |-> retry_after,
     fail_streak |-> fail_streak]

\* visibility.py:30-35
_CacheEntry(pass_obj, set_ts, retry_after, fail_streak) ==
    [pass_obj |-> pass_obj, set_ts |-> set_ts, retry_after |-> retry_after,
     fail_streak |-> fail_streak]

Min(a, b) == IF a <= b THEN a ELSE b
Max(a, b) == IF a >= b THEN a ELSE b

\* mutant of BackoffDelay: the delay doubles without a cap
BackoffDelay_uncapped(streak) == BackoffBase * (2 ^ (streak - 1))

\* visibility.py:195-197: min(3600.0, 60.0 * (2 ** (streak - 1)))
\* (60 * 2 ^ k exceeds the cap from k = 6 on; larger powers are not computed)
BackoffDelay(streak) ==
    IF streak - 1 >= 6 THEN BackoffCap
    ELSE Min(BackoffCap, BackoffBase * (2 ^ (streak - 1)))

\* visibility.py:197: the int -> float conversion of 2 ** (streak - 1) overflows
BackoffOverflows(streak) == streak - 1 > MaxFloatExp

\* visibility.py:198: delay * 0.1 * (2 * random.random() - 1.0), jit = 10 * (2 * random() - 1)
Jitter(delay, jit) == (delay * jit) \div 100

\* mutant of BackoffUntil: the deadline is not laid off from the clock
BackoffUntil_absolute(m, delay, jitter) == Max(1, delay + jitter)

\* visibility.py:199: mono() + max(1.0, delay + jitter)
BackoffUntil(m, delay, jitter) == m + Max(1, delay + jitter)

\* mutant of EntryOrNew: a failure starts from a fresh entry
EntryOrNew_fresh(entry) == _CacheEntry(None, 0, 0, 0)

\* visibility.py:200 and 210: entry or _CacheEntry(pass_obj=None, set_ts=0)
EntryOrNew(entry) == IF IsSome(entry) THEN Val(entry) ELSE _CacheEntry(None, 0, 0, 0)

\* mutant of _get_pass_with_cache: a successful fetch also sets a retry
\* deadline, one base delay ahead
_get_pass_with_cache_cooldown(entry, now, m, fetched, jit) ==
    IF IsSome(entry) /\ now <= Val(entry).set_ts
    THEN [ret |-> Val(entry).pass_obj, entry |-> entry, called |-> FALSE, raised |-> FALSE]
    ELSE IF IsSome(entry) /\ m < Val(entry).retry_after
    THEN [ret |-> None, entry |-> entry, called |-> FALSE, raised |-> FALSE]
    ELSE IF ~IsSome(fetched)
    THEN LET streak == IF IsSome(entry) THEN Val(entry).fail_streak + 1 ELSE 1
             delay  == BackoffDelay(streak)
             jitter == Jitter(delay, jit)
             backoff_until == BackoffUntil(m, delay, jitter)
             old == EntryOrNew(entry)
         IN  IF BackoffOverflows(streak)
             THEN [ret |-> None, entry |-> entry, called |-> TRUE, raised |-> TRUE]
             ELSE [ret |-> None,
                   entry |-> Some([old EXCEPT !.retry_after = backoff_until,
                                              !.fail_streak = streak]),
                   called |-> TRUE, raised |-> FALSE]
    ELSE LET set_ts == _extract_set_ts(Val(fetched))
             old == EntryOrNew(entry)
         IN  IF ~IsSome(set_ts)
             THEN [ret |-> fetched,
                   entry |-> Some([old EXCEPT !.pass_obj = fetched, !.set_ts = 0,
                                              !.retry_after = m + BackoffBase,
                                              !.fail_streak = 0]),
                   called |-> TRUE, raised |-> FALSE]
             ELSE [ret |-> fetched,
                   entry |-> Some(_CacheEntry(fetched, Val(set_ts), m + BackoffBase, 0)),
                   called |-> TRUE, raised |-> FALSE]

\* mutant of _get_pass_with_cache: the backoff runs on the wall clock
_get_pass_with_cache_wallClock(entry, now, m, fetched, jit) ==
    IF IsSome(entry) /\ now <= Val(entry).set_ts
    THEN [ret |-> Val(entry).pass_obj, entry |-> entry, called |-> FALSE, raised |-> FALSE]
    ELSE IF IsSome(entry) /\ now < Val(entry).retry_after
    THEN [ret |-> None, entry |-> entry, called |-> FALSE, raised |-> FALSE]
    ELSE IF ~IsSome(fetched)
    THEN LET streak == IF IsSome(entry) THEN Val(entry).fail_streak + 1 ELSE 1
             delay  == BackoffDelay(streak)
             jitter == Jitter(delay, jit)
             backoff_until == BackoffUntil(now, delay, jitter)
             old == EntryOrNew(entry)
         IN  IF BackoffOverflows(streak)
             THEN [ret |-> None, entry |-> entry, called |-> TRUE, raised |-> TRUE]
             ELSE [ret |-> None,
                   entry |-> Some([old EXCEPT !.retry_after = backoff_until,
                                              !.fail_streak = streak]),
                   called |-> TRUE, raised |-> FALSE]
    ELSE LET set_ts == _extract_set_ts(Val(fetched))
             old == EntryOrNew(entry)
         IN  IF ~IsSome(set_ts)
             THEN [ret |-> fetched,
                   entry |-> Some([old EXCEPT !.pass_obj = fetched, !.set_ts = 0,
                                              !.retry_after = 0, !.fail_streak = 0]),
                   called |-> TRUE, raised |-> FALSE]
             ELSE [ret |-> fetched,
                   entry |-> Some(_CacheEntry(fetched, Val(set_ts), 0, 0)),
                   called |-> TRUE, raised |-> FALSE]

(***************************************************************************)
(* _get_pass_with_cache (visibility.py:169-220) for one satellite.          *)
(* entry is _CACHE.get(sat_id); fetched is what the Fetcher returns if it   *)
(* is called; jit is 10 * (2 * random.random() - 1).  The result tells what *)
(* the call returns (ret), the entry it leaves in _CACHE (entry), whether   *)
(* the Fetcher was invoked (called) and whether an exception escaped.       *)
(***************************************************************************)
_get_pass_with_cache(entry, now, m, fetched, jit) ==
    IF IsSome(entry) /\ now <= Val(entry).set_ts
    THEN [ret |-> Val(entry).pass_obj, entry |-> entry, called |-> FALSE, raised |-> FALSE]
    ELSE IF IsSome(entry) /\ m < Val(entry).retry_after
    THEN [ret |-> None, entry |-> entry, called |-> FALSE, raised |-> FALSE]
    ELSE IF ~IsSome(fetched)
    THEN LET streak == IF IsSome(entry) THEN Val(entry).fail_streak + 1 ELSE 1
             delay  == BackoffDelay(streak)
             jitter == Jitter(delay, jit)
             backoff_until == BackoffUntil(m, delay, jitter)
             old == EntryOrNew(entry)
         IN  IF BackoffOverflows(streak)
             THEN [ret |-> None, entry |-> entry, called |-> TRUE, raised |-> TRUE]
             ELSE [ret |-> None,
                   entry |-> Some([old EXCEPT !.retry_after = backoff_until,
                                              !.fail_streak = streak]),
                   called |-> TRUE, raised |-> FALSE]
    ELSE LET set_ts == _extract_set_ts(Val(fetched))
             old == EntryOrNew(entry)
         IN  IF ~IsSome(set_ts)
             THEN [ret |-> fetched,
                   entry |-> Some([old EXCEPT !.pass_obj = fetched, !.set_ts = 0,
                                              !.retry_after = 0, !.fail_streak = 0]),
                   called |-> TRUE, raised |-> FALSE]
             ELSE [ret |-> fetched,
                   entry |-> Some(_CacheEntry(fetched, Val(set_ts), 0, 0)),
                   called |-> TRUE, raised |-> FALSE]

\* mutant of SortedById: the pairs stay in the order they were given
SortedById_asGiven(items) == items

\* sorted(pairs, key=id): ascending id, pairs of equal id keep their order
SortedById(items) ==
    LET n == Len(items)
        rank(i) == Cardinality({j \in 1..n : items[j][1] < items[i][1]})
                   + Cardinality({j \in 1..(i - 1) : items[j][1] = items[i][1]}) + 1
    IN  [k \in 1..n |-> items[CHOOSE i \in 1..n : rank(i) = k]]

\* mutant of Rotate: the list is walked by ascending id every cycle
Rotate_byId(items, start) == SortedById(items)

\* mutant of Rotate: the satellite at the scheduler index is visited again and
\* again
Rotate_repeat(items, start) == [i \in 1..Len(items) |-> items[start + 1]]

\* mutant of Rotate: the list is walked in configured order every cycle
Rotate_none(items, start) == items

\* visibility.py:249-250: sat_items[start:] + sat_items[:start]
Rotate(items, start) ==
    [i \in 1..Len(items) |-> items[((start + i - 1) % Len(items)) + 1]]

\* mutant of NoSatellites: the empty list is not special
NoSatellites_never(n) == FALSE

\* visibility.py:245
NoSatellites(n) == n = 0

\* visibility.py:253
FetchBudget(cap, n) == IF IsSome(cap) THEN Val(cap) ELSE n

\* mutant of CacheHit: the pass is dropped one second early
CacheHit_strict(entry, now) == IsSome(entry) /\ now < Val(entry).set_ts

\* mutant of CacheHit: any stored record is served, whatever its set time
CacheHit_anyRecord(entry, now) ==
    IsSome(entry) /\ (now <= Val(entry).set_ts \/ IsSome(Val(entry).pass_obj))

\* visibility.py:259
CacheHit(entry, now) == IsSome(entry) /\ now <= Val(entry).set_ts

\* mutant of BackoffActive: the deadline itself still counts as backoff
BackoffActive_inclusive(entry, m) ==
    m <= (IF IsSome(entry) THEN Val(entry).retry_after ELSE 0)

\* visibility.py:261
BackoffActive(entry, m) == m < (IF IsSome(entry) THEN Val(entry).retry_after ELSE 0)

\* mutant of BudgetLeft: the budget is not consulted
BudgetLeft_always(budget) == TRUE

\* visibility.py:264
BudgetLeft(budget) == budget > 0

\* mutant of SpendBudget: the decrement is forgotten
SpendBudget_forgotten(budget) == budget

\* visibility.py:266
SpendBudget(budget) == budget - 1

\* mutant of AdvanceRR: the pointer is never advanced
AdvanceRR_stuck(idx, n) == idx % n

\* mutant of StoreEntry: the entry is written for every satellite
StoreEntry_all(cache, sat_id, entry) == [s \in DOMAIN cache |-> entry]

\* visibility.py:203, 215, 219: _CACHE[sat_id] = new_entry
StoreEntry(cache, sat_id, entry) == [cache EXCEPT ![sat_id] = entry]

\* visibility.py:277
AdvanceRR(idx, n) == (idx + 1) % n

(***************************************************************************)
(* History of round-robin runs.  A run is a sequence of consecutive cycles  *)
(* over the same satellite list with a fetch budget of 1, at the start of   *)
(* each of which every satellite not yet fetched in the run is expired:     *)
(* neither a cache hit nor in backoff.  log holds, per finished cycle of    *)
(* the run, the scheduler index it began with and the satellites for which  *)
(* the Fetcher was called.                                                  *)
(***************************************************************************)
NoRun == [on |-> FALSE, log |-> << >>]
NewRun == [on |-> TRUE, log |-> << >>]

Expired(entry, now, m) ==
    /\ ~(IsSome(entry) /\ now <= Val(entry).set_ts)
    /\ ~(IsSome(entry) /\ m < Val(entry).retry_after)

FetchedInRun(run) ==
    UNION {{run.log[j].calls[k] : k \in DOMAIN run.log[j].calls} : j \in DOMAIN run.log}

\* no cycle over a satellite list has ended yet
NotWaiting == [n |-> 0, count |-> [s \in SatIds |-> 0]]

\* the history after a call over a non-empty list has ended, by returning or
\* by raising: a satellite that was neither a cache hit nor in backoff when
\* the call began and for which the Fetcher was not called has waited one
\* more cycle (counted up to the length of the list); any other starts anew
Waited(prev, items, tr, cache, now, m) ==
    LET n == Len(items)
        ids == {items[i][1] : i \in 1..n}
        visit(s) == {i \in DOMAIN tr : tr[i].sat = s}
        atStart(s) == IF visit(s) = {} THEN cache[s]
                      ELSE tr[CHOOSE i \in visit(s) : TRUE].entry
        fetched(s) == \E i \in visit(s) : tr[i].called
    IN  IF n = 0 THEN prev
        ELSE [n |-> n,
              count |-> [s \in SatIds |->
                           IF s \notin ids \/ fetched(s) \/ ~Expired(atStart(s), now, m)
                           THEN 0
                           ELSE IF prev.count[s] + 1 <= n THEN prev.count[s] + 1 ELSE n]]

NoFailures == [s \in SatIds |-> 0]

\* the count stops two past the largest exponent a float takes, one past the
\* first failure whose delay cannot be computed
MaxFailuresCounted == MaxFloatExp + 2

\* the failure counts after a call: a satellite for which the Fetcher
\* returned nothing has one more, one for which it returned a record has none
FailuresAfter(prev, tr) ==
    [s \in SatIds |->
       IF \E i \in DOMAIN tr : tr[i].sat = s /\ tr[i].called /\ tr[i].obj = << >>
       THEN Min(prev[s] + 1, MaxFailuresCounted)
       ELSE IF \E i \in DOMAIN tr : tr[i].sat = s /\ tr[i].called
       THEN 0
       ELSE prev[s]]

\* the satellites for which the Fetcher was called, in call order
Calls(tr) ==
    LET F[i \in 0..Len(tr)] ==
            IF i = 0 THEN << >>
            ELSE IF tr[i].called THEN Append(F[i - 1], tr[i].sat) ELSE F[i - 1]
    IN  F[Len(tr)]

\* the formatter has not been called
FormatIdle ==
    /\ f_in = None
    /\ f_out = None

\* fetch_next_pass has not been called
FetchIdle ==
    /\ endpoint = None
    /\ attempt = 0
    /\ http_log = << >>
    /\ fetch_out = None

\* no emitter cycle has run
EmitIdle ==
    /\ e_pc = "idle"
    /\ do_sleep = TRUE
    /\ t0 = 0
    /\ e_pairs = << >>
    /\ line = ""
    /\ out_idx = 1
    /\ sink_calls = << >>
    /\ elapsed = 0
    /\ sleep_delay = 0
    /\ cycles = << >>

\* nothing around the core has run yet
PeripheryInit ==
    /\ FormatIdle
    /\ FetchIdle
    /\ EmitIdle
    /\ outputs = << >>

\* the satellites for which the Fetcher returned a record whose set time does
\* not parse (visibility.py:207-216)
NoSetStored(tr) ==
    {tr[i].sat : i \in {j \in DOMAIN tr :
                          /\ tr[j].called
                          /\ Len(tr[j].obj) = 1
                          /\ tr[j].obj[1].set.utc_timestamp.k \notin {"num", "str"}}}

Init ==
    /\ _CACHE = [s \in SatIds |-> None]
    /\ _RR_IDX = 0
    /\ mono = 0
    /\ pc = "idle"
    /\ cfg = AppConfig(<< >>)
    /\ now_utc = 0
    /\ ordered = << >>
    /\ pos = 1
    /\ max_fetches_per_tick = None
    /\ fetch_budget = 0
    /\ results = << >>
    /\ trace = << >>
    /\ rr0 = 0
    /\ rrLog = NoRun
    /\ lastNoSet = {}
    /\ resetFrom = None
    /\ unserved = NotWaiting
    /\ failures = NoFailures
    /\ w_in = None
    /\ w_out = None
    /\ PeripheryInit

\* visible_now, visibility.py:239-253: read the clock, plan the cycle
Begin(configs, utcs, caps) ==
    /\ pc = "idle"
    /\ \E c \in configs, now \in utcs, cap \in caps :
         LET n == Len(c.satellites)
             ids == {c.satellites[i][1] : i \in 1..n}
         IN
         /\ cfg' = c
         /\ now_utc' = now
         /\ max_fetches_per_tick' = cap
         /\ results' = << >>
         /\ trace' = << >>
         /\ pos' = 1
         /\ rr0' = _RR_IDX
         /\ IF NoSatellites(n)
            THEN /\ pc' = "returned"
                 /\ ordered' = << >>
                 /\ fetch_budget' = 0
                 /\ rrLog' = NoRun
            ELSE /\ pc' = "loop"
                 /\ ordered' = Rotate(c.satellites, _RR_IDX % n)
                 /\ fetch_budget' = FetchBudget(cap, n)
                 /\ rrLog' =
                      IF /\ rrLog.on
                         /\ cap = Some(1)
                         /\ Len(rrLog.log) < n
                         /\ \A s \in ids \ FetchedInRun(rrLog) : Expired(_CACHE[s], now, mono)
                      THEN rrLog
                      ELSE IF cap = Some(1) /\ \A s \in ids : Expired(_CACHE[s], now, mono)
                      THEN NewRun
                      ELSE NoRun
    /\ UNCHANGED << _CACHE, _RR_IDX, mono, lastNoSet, resetFrom, unserved, failures, w_in, w_out >>
    /\ UNCHANGED peripheryVars

\* visible_now, visibility.py:255-274: one iteration of the for loop
Step(outcomes, jitters) ==
    /\ pc = "loop"
    /\ pos <= Len(ordered)
    /\ \E fetched \in outcomes, jit \in jitters :
         LET sat_id == ordered[pos][1]
             color  == ordered[pos][2]
             entry  == _CACHE[sat_id]
             hit    == CacheHit(entry, now_utc)
             inBackoff == BackoffActive(entry, mono)
             doFetch == ~hit /\ ~inBackoff /\ BudgetLeft(fetch_budget)
             g == _get_pass_with_cache(entry, now_utc, mono, fetched, jit)
             pass_obj == IF hit THEN Val(entry).pass_obj
                         ELSE IF inBackoff THEN None
                         ELSE IF BudgetLeft(fetch_budget) THEN g.ret
                         ELSE None
             raised == doFetch /\ g.raised
             overhead == IsSome(pass_obj)
                         /\ _is_overhead_now(Val(pass_obj), now_utc, cfg.min_elevation_deg)
         IN
         /\ _CACHE' = IF doFetch THEN StoreEntry(_CACHE, sat_id, g.entry) ELSE _CACHE
         /\ fetch_budget' = IF doFetch /\ ~raised THEN SpendBudget(fetch_budget)
                            ELSE fetch_budget
         /\ results' = IF overhead /\ ~raised THEN Append(results, <<sat_id, color>>)
                       ELSE results
         /\ trace' = Append(trace, [sat |-> sat_id, entry |-> entry, mono |-> mono,
                                    budget |-> fetch_budget, obj |-> pass_obj,
                                    called |-> doFetch /\ g.called,
                                    spent |-> fetch_budget - fetch_budget'])
         /\ pc' = IF raised THEN "raised" ELSE "loop"
         /\ pos' = IF raised THEN pos ELSE pos + 1
    /\ UNCHANGED << _RR_IDX, mono, cfg, now_utc, ordered, max_fetches_per_tick, rr0, rrLog,
                    lastNoSet, resetFrom, unserved, failures, w_in, w_out >>
    /\ UNCHANGED peripheryVars

\* visible_now, visibility.py:276-279: advance the round-robin pointer and return
EndCycle ==
    /\ pc = "loop"
    /\ pos > Len(ordered)
    /\ _RR_IDX' = AdvanceRR(_RR_IDX, Len(ordered))
    /\ pc' = "returned"
    /\ rrLog' = IF rrLog.on
                THEN [rrLog EXCEPT !.log = Append(@, [idx |-> rr0, calls |-> Calls(trace)])]
                ELSE rrLog
    /\ UNCHANGED << _CACHE, mono, cfg, now_utc, ordered, pos, max_fetches_per_tick,
                    fetch_budget, results, trace, rr0, lastNoSet, resetFrom, unserved, failures, w_in, w_out >>
    /\ UNCHANGED peripheryVars

\* the frame of a finished call of visible_now goes away
ReturnFrame ==
    /\ pc \in {"returned", "raised"}
    /\ pc' = "idle"
    /\ cfg' = AppConfig(<< >>)
    /\ now_utc' = 0
    /\ ordered' = << >>
    /\ pos' = 1
    /\ max_fetches_per_tick' = None
    /\ fetch_budget' = 0
    /\ results' = << >>
    /\ trace' = << >>
    /\ rr0' = 0
    /\ rrLog' = IF pc = "raised" THEN NoRun ELSE rrLog
    /\ lastNoSet' = NoSetStored(trace)
    /\ resetFrom' = None
    /\ unserved' = Waited(unserved, cfg.satellites, trace, _CACHE, now_utc, mono)
    /\ failures' = FailuresAfter(failures, trace)
    /\ UNCHANGED << _CACHE, _RR_IDX, mono, w_in, w_out >>

\* the caller takes the result (or the exception); the call's frame is gone
Return ==
    /\ ReturnFrame
    /\ UNCHANGED peripheryVars

\* time passes between two cycles (emit.py:65-68 sleeps up to the 10 s period)
Tick(steps, maxMono) ==
    /\ pc = "idle"
    /\ \E d \in steps :
         /\ mono + d <= maxMono
         /\ mono' = mono + d
    /\ UNCHANGED << _CACHE, _RR_IDX, pc, cfg, now_utc, ordered, pos, max_fetches_per_tick,
                    fetch_budget, results, trace, rr0, rrLog, lastNoSet, resetFrom, unserved, failures, w_in,
                    w_out >>
    /\ UNCHANGED peripheryVars

\* what a reset leaves in the history: the index and the number of entries
\* it found
ResetSnapshot ==
    Some([idx |-> _RR_IDX, entries |-> Cardinality({s \in SatIds : IsSome(_CACHE[s])})])

\* mutant of clear_cache_for_tests: the scheduler index is not reset
clear_cache_for_tests_keepsIndex ==
    /\ pc = "idle"
    /\ _CACHE' = [s \in SatIds |-> None]
    /\ _RR_IDX' = _RR_IDX
    /\ rrLog' = NoRun
    /\ lastNoSet' = {}
    /\ resetFrom' = ResetSnapshot
    /\ unserved' = NotWaiting
    /\ failures' = NoFailures
    /\ UNCHANGED << mono, pc, cfg, now_utc, ordered, pos, max_fetches_per_tick, fetch_budget,
                    results, trace, rr0, w_in, w_out >>
    /\ UNCHANGED peripheryVars

\* visibility.py:42-45
clear_cache_for_tests ==
    /\ pc = "idle"
    /\ _CACHE' = [s \in SatIds |-> None]
    /\ _RR_IDX' = 0
    /\ rrLog' = NoRun
    /\ lastNoSet' = {}
    /\ resetFrom' = ResetSnapshot
    /\ unserved' = NotWaiting
    /\ failures' = NoFailures
    /\ UNCHANGED << mono, pc, cfg, now_utc, ordered, pos, max_fetches_per_tick, fetch_budget,
                    results, trace, rr0, w_in, w_out >>
    /\ UNCHANGED peripheryVars

Next ==
    \/ Begin(Configs, UtcValues, Caps)
    \/ Step(FetchOutcomes, Jitters)
    \/ EndCycle
    \/ Return
    \/ Tick(MonoSteps, MaxMono)
    \/ clear_cache_for_tests

Spec == Init /\ [][Next]_vars


(***************************************************************************)
(* A long run of Fetcher failures: every fetch fails, and between cycles    *)
(* the loop sleeps until every backoff has elapsed.                         *)
(***************************************************************************)
LongConfigs == {AppConfig(SatItems)}
LongUtcValues == {1201}
LongCaps == {None}
LongOutcomes == {None}
LongJitters == {0}

InBackoff(s) == IsSome(_CACHE[s]) /\ mono < Val(_CACHE[s]).retry_after

\* emit.py:52-68: cycles repeat; the clock moves on until the backoffs are over
SleepUntilRetry ==
    /\ pc = "idle"
    /\ \E s \in SatIds :
         /\ InBackoff(s)
         /\ \A t \in SatIds :
              IsSome(_CACHE[t]) => Val(_CACHE[t]).retry_after <= Val(_CACHE[s]).retry_after
         /\ mono' = Val(_CACHE[s]).retry_after
    /\ UNCHANGED << _CACHE, _RR_IDX, pc, cfg, now_utc, ordered, pos, max_fetches_per_tick,
                    fetch_budget, results, trace, rr0, rrLog, lastNoSet, resetFrom, unserved, failures, w_in,
                    w_out >>
    /\ UNCHANGED peripheryVars

NextLong ==
    \/ Begin(LongConfigs, LongUtcValues, LongCaps)
    \/ Step(LongOutcomes, LongJitters)
    \/ EndCycle
    \/ Return
    \/ SleepUntilRetry

SpecLong == Init /\ [][NextLong]_vars

(***************************************************************************)
(* Backoff escalation of one satellite: the Fetcher fails up to MaxStreak   *)
(* times in a row, with jitter at both ends of its range, and may succeed   *)
(* at any point; the pass it then returns is still valid at now_utc, so the *)
(* satellite is served from the cache from then on.                         *)
(***************************************************************************)
MaxStreak == 8
BackoffConfigs == {AppConfig(<< SatItems[1] >>)}
BackoffUtcValues == {1200}
BackoffCaps == {None}
\* random.random() in {0, 0.5, 0.75}
BackoffJitters == {-10, 0, 5}
BackoffOutcomes ==
    IF \A s \in SatIds : IsSome(_CACHE[s]) => Val(_CACHE[s]).fail_streak < MaxStreak
    THEN {None, Some(PassGood)}
    ELSE {Some(PassGood)}

NextBackoff ==
    \/ Begin(BackoffConfigs, BackoffUtcValues, BackoffCaps)
    \/ Step(BackoffOutcomes, BackoffJitters)
    \/ EndCycle
    \/ Return
    \/ SleepUntilRetry

SpecBackoff == Init /\ [][NextBackoff]_vars

(***************************************************************************)
(* The round-robin scheduler over three satellites.                         *)
(***************************************************************************)
RRConfigs == {AppConfig(SatItems3)}
RRUtcValues == {1151, 1201}
RRCaps == {None, Some(1)}
RROutcomes == {None, Some(PassGood)}
RRJitters == {0}

NextRR ==
    \/ Begin(RRConfigs, RRUtcValues, RRCaps)
    \/ Step(RROutcomes, RRJitters)
    \/ EndCycle
    \/ Return
    \/ Tick(MonoSteps, MaxMono)
    \/ clear_cache_for_tests

SpecRR == Init /\ [][NextRR]_vars

(***************************************************************************)
(* Records out of chronological order: the Fetcher may return a pass whose  *)
(* set point is stamped before its culmination.  Nothing in                 *)
(* _get_pass_with_cache or _compute_threshold_window compares the three     *)
(* timestamps with each other.                                              *)
(***************************************************************************)
\* rise 1000 at 46 deg, culmination 1100 at 46 deg, set 1050 at 10 deg
PassSetEarly == Pass(Point(Num(1000), Str(46)), Point(Num(1100), Str(46)), Point(Num(1050), Str(10)))
UnorderedConfigs == {AppConfig(SatItems)}
UnorderedUtcValues == {1050, 1060, 1201}
UnorderedCaps == {Some(1)}
UnorderedOutcomes == {None, Some(PassGood), Some(PassSetEarly)}
UnorderedJitters == {0}

NextUnordered ==
    \/ Begin(UnorderedConfigs, UnorderedUtcValues, UnorderedCaps)
    \/ Step(UnorderedOutcomes, UnorderedJitters)
    \/ EndCycle
    \/ Return
    \/ Tick(MonoSteps, MaxMono)

SpecUnordered == Init /\ [][NextUnordered]_vars

(***************************************************************************)
(* The window calculator as a pure function: inputs are drawn from bounded  *)
(* sets, Compute applies _compute_threshold_window and _is_overhead_now.    *)
(***************************************************************************)
WRiseTs == {Num(1000), Bad}
WCulmTs == {Num(1100), Num(1105), Missing}
WSetTs  == {Num(1200), Num(1090), Bad}
WAlts   == {Str(10), Str(27), Str(28), Str(46), Bad, Missing}
WThresholds == {25, 28}
WNows == {1049, 1050, 1150, 1151}

WInputs ==
    { [pass_obj |-> Pass(Point(rt, ra), Point(ct, ca), Point(st, sa)),
       min_elev |-> m, now_utc |-> now] :
         rt \in WRiseTs, ct \in WCulmTs, st \in WSetTs,
         ra \in WAlts, ca \in WAlts, sa \in WAlts,
         m \in WThresholds, now \in WNows }

WindowInit ==
    /\ _CACHE = [s \in SatIds |-> None]
    /\ _RR_IDX = 0
    /\ mono = 0
    /\ pc = "idle"
    /\ cfg = AppConfig(<< >>)
    /\ now_utc = 0
    /\ ordered = << >>
    /\ pos = 1
    /\ max_fetches_per_tick = None
    /\ fetch_budget = 0
    /\ results = << >>
    /\ trace = << >>
    /\ rr0 = 0
    /\ rrLog = NoRun
    /\ lastNoSet = {}
    /\ resetFrom = None
    /\ unserved = NotWaiting
    /\ failures = NoFailures
    /\ w_in \in {Some(x) : x \in WInputs}
    /\ w_out = None
    /\ PeripheryInit

Compute ==
    /\ IsSome(w_in)
    /\ w_out = None
    /\ w_out' = Some([window |-> _compute_threshold_window(Val(w_in).pass_obj,
                                                           Val(w_in).min_elev),
                      overhead |-> _is_overhead_now(Val(w_in).pass_obj,
                                                    Val(w_in).now_utc,
                                                    Val(w_in).min_elev),
                      guards |-> GuardsTaken(Val(w_in).pass_obj, Val(w_in).min_elev)])
    /\ UNCHANGED << w_in >>
    /\ UNCHANGED cycleVars
    /\ UNCHANGED peripheryVars

WindowNext == Compute

WindowSpec == WindowInit /\ [][WindowNext]_vars

\* no call of visible_now or of the window calculator is under way
CoreIdle ==
    /\ _CACHE = [s \in SatIds |-> None]
    /\ _RR_IDX = 0
    /\ mono = 0
    /\ pc = "idle"
    /\ cfg = AppConfig(<< >>)
    /\ now_utc = 0
    /\ ordered = << >>
    /\ pos = 1
    /\ max_fetches_per_tick = None
    /\ fetch_budget = 0
    /\ results = << >>
    /\ trace = << >>
    /\ rr0 = 0
    /\ rrLog = NoRun
    /\ lastNoSet = {}
    /\ resetFrom = None
    /\ unserved = NotWaiting
    /\ failures = NoFailures
    /\ w_in = None
    /\ w_out = None

(***************************************************************************)
(* The formatter as a pure function: the pairs are drawn from the lists     *)
(* visible_now can return (any selection of configured satellites, in any   *)
(* order), FormatLine applies format_line.                                  *)
(***************************************************************************)
\* ", ".join(parts)
RECURSIVE Join(_)
Join(parts) ==
    IF Len(parts) = 0 THEN ""
    ELSE IF Len(parts) = 1 THEN parts[1]
    ELSE parts[1] \o ", " \o Join(Tail(parts))

\* f"{sid}: {color}"
FormatPair(pair) == ToString(pair[1]) \o ": " \o pair[2]

\* format.py:15-21
format_line(pairs) ==
    IF Len(pairs) = 0
    THEN ""
    ELSE LET pairs_sorted == SortedById(pairs)
         IN  Join([i \in 1..Len(pairs_sorted) |-> FormatPair(pairs_sorted[i])])

\* the configured satellites of the formatter's inputs; the id 901 sorts
\* before the five-digit ids as a number and after them as text
FormatItems == SatItems3 \o << <<901, "red">> >>

\* every list of distinct configured pairs
FInputs ==
    LET n == Len(FormatItems)
        Seqs == UNION {[1..k -> 1..n] : k \in 0..n}
    IN  { [i \in DOMAIN q |-> FormatItems[q[i]]] :
            q \in {r \in Seqs : \A i, j \in DOMAIN r : i # j => r[i] # r[j]} }

FormatInit ==
    /\ CoreIdle
    /\ FetchIdle
    /\ EmitIdle
    /\ outputs = << >>
    /\ f_in \in {Some(x) : x \in FInputs}
    /\ f_out = None

FormatLine ==
    /\ IsSome(f_in)
    /\ f_out = None
    /\ f_out' = Some(format_line(Val(f_in)))
    /\ UNCHANGED << f_in >>
    /\ UNCHANGED cycleVars
    /\ UNCHANGED windowVars
    /\ UNCHANGED fetchVars
    /\ UNCHANGED emitVars

FormatNext == FormatLine

FormatSpec == FormatInit /\ [][FormatNext]_vars


(***************************************************************************)
(* Properties of the cycle (Spec, SpecRR, SpecLong).                        *)
(* trace[i] is iteration i of the running call: the satellite, its cache    *)
(* entry and the clock before the iteration, the budget before it, the      *)
(* pass object the iteration ended with, whether the Fetcher was invoked    *)
(* and how much budget the iteration took.                                  *)
(***************************************************************************)

\* C1: a satellite that has a cache entry with now_utc <= entry.set_ts is
\* served from the cache: the Fetcher is not invoked for it in that cycle,
\* the iteration yields the cached pass object and takes no fetch budget.
C1_CacheHitNoFetch ==
    \A i \in DOMAIN trace :
        LET e == trace[i].entry IN
        (Len(e) = 1 /\ now_utc <= e[1].set_ts)
            => /\ ~trace[i].called
               /\ trace[i].obj = e[1].pass_obj
               /\ trace[i].spent = 0

\* C1 witness: in a budget-1 cycle at now_utc = set_ts, one satellite was
\* served its cached pass and the Fetcher was then called for the other.
C1_Witness ==
    /\ pc = "returned"
    /\ max_fetches_per_tick = Some(1)
    /\ \E i, j \in DOMAIN trace :
         /\ Len(trace[i].entry) = 1
         /\ now_utc = trace[i].entry[1].set_ts
         /\ trace[i].obj = Some(PassGood)
         /\ ~trace[i].called
         /\ i < j
         /\ trace[j].called

\* C2: while mono < entry.retry_after a satellite that is not a cache hit is
\* skipped: no Fetcher call, nothing yielded, no budget taken; and once
\* mono >= entry.retry_after the Fetcher is invoked again as soon as the
\* satellite is reached with budget left.
C2_BackoffBlocksFetch ==
    \A i \in DOMAIN trace :
        LET e == trace[i].entry IN
        (Len(e) = 1 /\ ~(now_utc <= e[1].set_ts))
            => /\ (trace[i].mono < e[1].retry_after)
                    => (~trace[i].called /\ trace[i].obj = None /\ trace[i].spent = 0)
               /\ (trace[i].mono >= e[1].retry_after /\ trace[i].budget > 0)
                    => trace[i].called

\* C2 witness: one satellite was skipped in backoff while the other, whose
\* backoff had elapsed, was fetched again in the same cycle.
C2_Witness ==
    \E i, j \in DOMAIN trace :
        /\ Len(trace[i].entry) = 1 /\ Len(trace[j].entry) = 1
        /\ ~(now_utc <= trace[i].entry[1].set_ts)
        /\ trace[i].mono < trace[i].entry[1].retry_after
        /\ ~trace[i].called
        /\ trace[j].entry[1].fail_streak >= 1
        /\ trace[j].mono >= trace[j].entry[1].retry_after
        /\ trace[j].called

\* C3: in every cycle the Fetcher is invoked at most fetch-budget times (the
\* satellite count by default, the caller's cap otherwise); an iteration
\* takes one unit of budget if it invokes the Fetcher and none otherwise, so
\* the budget left is the initial budget minus the invocations so far.
C3_BudgetPerFetch ==
    (pc \in {"loop", "returned"} /\ Len(cfg.satellites) > 0)
        => LET budget0 == IF max_fetches_per_tick = None THEN Len(cfg.satellites)
                          ELSE max_fetches_per_tick[1]
               nCalls == Cardinality({i \in DOMAIN trace : trace[i].called})
           IN  /\ nCalls <= budget0
               /\ fetch_budget = budget0 - nCalls
               /\ \A i \in DOMAIN trace :
                    /\ trace[i].spent = (IF trace[i].called THEN 1 ELSE 0)
                    /\ trace[i].budget = budget0
                          - Cardinality({k \in 1..(i - 1) : trace[k].called})

\* C3 witness: a finished budget-1 cycle with one Fetcher call, after which a
\* satellite that needed a fetch was deferred.
C3_Witness ==
    /\ pc = "returned"
    /\ max_fetches_per_tick = Some(1)
    /\ Len(trace) = 2
    /\ trace[1].called /\ trace[1].spent = 1
    /\ ~trace[2].called /\ trace[2].budget = 0 /\ trace[2].entry = None


\* C4: in a run of N consecutive budget-1 cycles over N satellites whose
\* entries are expired, every cycle calls the Fetcher exactly once, for the
\* satellite at that cycle's scheduler index, and consecutive cycles have
\* consecutive indices modulo N; so after N cycles each satellite has been
\* fetched exactly once, in rotation order.
C4_RoundRobinFairness ==
    rrLog.on =>
        LET log == rrLog.log
            n == Len(SatItems3)
        IN  /\ \A j \in DOMAIN log :
                 /\ log[j].calls = << SatItems3[(log[j].idx % n) + 1][1] >>
                 /\ j > 1 => log[j].idx = (log[j - 1].idx + 1) % n
            /\ Len(log) = n =>
                 \A k \in 1..n :
                     Cardinality({j \in DOMAIN log : log[j].calls = << SatItems3[k][1] >>}) = 1

\* C4 witness: a complete run of three cycles that began at scheduler index 1,
\* so the rotation wrapped around.
C4_Witness ==
    /\ rrLog.on
    /\ Len(rrLog.log) = Len(SatItems3)
    /\ rrLog.log[1].idx = 1
    /\ rrLog.log[3].calls = << SatItems3[1][1] >>

ConfiguredTag(id) ==
    LET i == CHOOSE k \in DOMAIN cfg.satellites : cfg.satellites[k][1] = id
    IN  cfg.satellites[i][2]

\* the pairs the iterations 1..k must have produced
ExpectedResults(k) ==
    LET F[i \in 0..k] ==
            IF i = 0 THEN << >>
            ELSE LET o == trace[i].obj
                     w == IF Len(o) = 1
                          THEN _compute_threshold_window(o[1], cfg.min_elevation_deg)
                          ELSE << >>
                 IN  IF Len(o) = 1 /\ Len(w) = 1 /\ w[1][1] <= now_utc /\ now_utc <= w[1][2]
                     THEN Append(F[i - 1], <<trace[i].sat, ConfiguredTag(trace[i].sat)>>)
                     ELSE F[i - 1]
    IN  F[k]

\* C6: the result holds the pair (id, configured tag) for exactly the
\* satellites for which the cycle obtained a pass object (from the cache or
\* the Fetcher) whose window for the configured minimum elevation has
\* enter <= now_utc <= exit, both ends included.
C6_ResultsIffInWindow ==
    pc \in {"loop", "returned"} => results = ExpectedResults(Len(trace))

\* C6 witness: at now_utc = 1050, the entry edge of the window of one
\* satellite's pass, both satellites obtained a pass object and only that one
\* is in the result.
C6_Witness ==
    /\ pc = "returned"
    /\ now_utc = 1050
    /\ Len(trace) = 2
    /\ trace[1].obj = Some(PassNoSet)
    /\ trace[2].obj = Some(PassGood)
    /\ results = << <<trace[2].sat, ConfiguredTag(trace[2].sat)>> >>


\* C21: the result of a cycle is a subsequence of the configured list rotated
\* to the scheduler index the cycle began with: its pairs are pairs of that
\* list, in the order the rotated list has them, and no satellite id occurs
\* twice.
C21_ResultsInRotationOrder ==
    (pc \in {"loop", "returned"} /\ Len(cfg.satellites) > 0)
        => LET items == cfg.satellites
               n == Len(items)
               rotated == [i \in 1..n |-> items[((rr0 + i - 1) % n) + 1]]
               at(k) == CHOOSE j \in 1..n : rotated[j] = results[k]
           IN  /\ \A k \in DOMAIN results : \E j \in 1..n : rotated[j] = results[k]
               /\ \A k, l \in DOMAIN results : k < l => at(k) < at(l)
               /\ \A k, l \in DOMAIN results : k # l => results[k][1] # results[l][1]

\* C21 witness: a cycle that began at scheduler index 1 returned both
\* satellites, the one with the larger id first.
C21_Witness ==
    /\ pc = "returned"
    /\ rr0 = 1
    /\ Len(results) = 2
    /\ results[1][1] > results[2][1]
    /\ results[1] = cfg.satellites[2]
    /\ results[2] = cfg.satellites[1]

\* C22: after clear_cache_for_tests, in whatever state it was called, the
\* cache has no entry and the scheduler index is 0; the call that follows
\* runs as a first call does: it starts at index 0, walks the satellites in
\* configured order, finds no entry for any of them and calls the Fetcher
\* for each one it reaches with budget left.
C22_ResetRestoresInitial ==
    Len(resetFrom) = 1 =>
        /\ pc = "idle" => (_RR_IDX = 0 /\ \A s \in SatIds : _CACHE[s] = << >>)
        /\ pc # "idle" =>
              /\ rr0 = 0
              /\ \A i \in DOMAIN trace :
                    /\ trace[i].sat = cfg.satellites[i][1]
                    /\ trace[i].entry = << >>
                    /\ trace[i].called = (trace[i].budget > 0)

\* C22 witness: the reset was called with the scheduler index at 1 and two
\* entries in the cache, and the call after it has fetched both satellites
\* from index 0.
C22_Witness ==
    /\ resetFrom = Some([idx |-> 1, entries |-> 2])
    /\ pc = "returned"
    /\ rr0 = 0
    /\ Len(trace) = 2
    /\ trace[1].called /\ trace[2].called

\* C23: a Fetcher failure for one satellite does not affect the others in
\* the same cycle: a call in which the Fetcher failed for some satellite
\* still gives every configured satellite its iteration and ends with the
\* result holding exactly the satellites whose own pass object puts now_utc
\* inside its window; with two satellites, one inside its window and one
\* without prediction, the result is the first one's (id, tag) pair alone.
C23_FailureIsolated ==
    (/\ pc \in {"returned", "raised"}
     /\ Len(cfg.satellites) > 0
     /\ \E i \in DOMAIN trace : trace[i].called /\ trace[i].obj = << >>)
    => /\ Len(trace) = Len(cfg.satellites)
       /\ results = ExpectedResults(Len(trace))
       /\ \A i, j \in DOMAIN trace :
             (/\ trace[i].called /\ trace[i].obj = << >>
              /\ Len(trace) = 2 /\ j # i
              /\ Len(trace[j].obj) = 1
              /\ _is_overhead_now(trace[j].obj[1], now_utc, cfg.min_elevation_deg))
             => results = << <<trace[j].sat, ConfiguredTag(trace[j].sat)>> >>

\* C24: within one call no satellite has more than one iteration, so the
\* Fetcher is invoked at most once per satellite; in particular a satellite
\* whose fetch failed is not fetched again before the call ends.
C24_NoRetryWithinCycle ==
    /\ Len(trace) <= Len(cfg.satellites)
    /\ \A i, j \in DOMAIN trace :
          (i # j /\ trace[i].called /\ trace[j].called) => trace[i].sat # trace[j].sat
    /\ \A i, j \in DOMAIN trace :
          (i < j /\ trace[i].called /\ trace[i].obj = << >>)
              => ~(trace[j].sat = trace[i].sat /\ trace[j].called)

\* C24 witness: a finished call in which the Fetcher failed for the first
\* satellite and was then called for the second one, once each.
C24_Witness ==
    /\ pc = "returned"
    /\ Len(trace) = 2
    /\ trace[1].called /\ trace[1].obj = << >>
    /\ trace[2].called /\ trace[2].obj = Some(PassGood)
    /\ trace[1].sat # trace[2].sat
    /\ fetch_budget = 0

(***************************************************************************)
(* Properties of the cache entry (Spec, SpecBackoff, SpecLong).  While a    *)
(* call runs, every satellite is visited at most once, so                   *)
(* _CACHE[trace[i].sat] is the entry iteration i left behind.  An iteration *)
(* with called and obj = None is a Fetcher failure; one with called and     *)
(* obj # None is a Fetcher success.                                         *)
(***************************************************************************)

\* C12: a Fetcher failure leaves an entry whose fail_streak is the previous
\* fail_streak plus one (1 if there was no entry) and whose retry_after is
\* mono + d with d >= 1 and d within 10% of min(3600, 60 * 2^(fail_streak-1));
\* so the first three failures in a row give d within 10% of 60, 120, 240.
C12_FailureEscalates ==
    \A i \in DOMAIN trace :
        (trace[i].called /\ trace[i].obj = << >>) =>
            LET e == trace[i].entry
                a == _CACHE[trace[i].sat]
                s == IF Len(e) = 1 THEN e[1].fail_streak + 1 ELSE 1
                nominal == IF s = 1 THEN 60 ELSE IF s = 2 THEN 120 ELSE IF s = 3 THEN 240
                           ELSE IF s = 4 THEN 480 ELSE IF s = 5 THEN 960
                           ELSE IF s = 6 THEN 1920 ELSE 3600
            IN  /\ Len(a) = 1
                /\ a[1].fail_streak = s
                /\ a[1].retry_after - trace[i].mono >= 1
                /\ 10 * (a[1].retry_after - trace[i].mono) >= 9 * nominal
                /\ 10 * (a[1].retry_after - trace[i].mono) <= 11 * nominal

\* C13 as stated: the retry_after a Fetcher failure sets is never more than
\* 3600 seconds after the clock reading of that failure.
C13_DeltaAtMost3600 ==
    \A i \in DOMAIN trace :
        (trace[i].called /\ trace[i].obj = << >> /\ Len(_CACHE[trace[i].sat]) = 1)
            => _CACHE[trace[i].sat][1].retry_after - trace[i].mono <= 3600

\* C13 amended: the delay is capped at 3600 seconds before the jitter is
\* added, so the retry_after a Fetcher failure sets is never more than 3600
\* seconds plus 10%, 3960 seconds, after the clock reading of that failure,
\* however many failures came before.
C13_DeltaAtMostCapPlusJitter ==
    \A i \in DOMAIN trace :
        (trace[i].called /\ trace[i].obj = << >> /\ Len(_CACHE[trace[i].sat]) = 1)
            => _CACHE[trace[i].sat][1].retry_after - trace[i].mono <= 3600 + 360

\* C13 witness: an eighth failure in a row, with positive jitter, set a
\* retry_after more than 3600 seconds ahead.
C13_Witness ==
    \E i \in DOMAIN trace :
        /\ trace[i].called /\ trace[i].obj = << >>
        /\ Len(trace[i].entry) = 1
        /\ trace[i].entry[1].fail_streak = 7
        /\ Len(_CACHE[trace[i].sat]) = 1
        /\ _CACHE[trace[i].sat][1].fail_streak = 8
        /\ _CACHE[trace[i].sat][1].retry_after - trace[i].mono > 3600

\* C14: a Fetcher failure leaves the record and the set_ts of an existing
\* entry as they were (only retry_after and fail_streak may differ), and an
\* entry it creates holds no record.
C14_FailureKeepsRecord ==
    \A i \in DOMAIN trace :
        (trace[i].called /\ trace[i].obj = << >>) =>
            LET e == trace[i].entry
                a == _CACHE[trace[i].sat]
            IN  /\ Len(a) = 1
                /\ a[1].pass_obj = (IF Len(e) = 1 THEN e[1].pass_obj ELSE << >>)
                /\ a[1].set_ts = (IF Len(e) = 1 THEN e[1].set_ts ELSE 0)

\* C14 witness: the Fetcher failed for a satellite whose entry held an
\* expired pass; the entry still holds that pass and its set_ts, with
\* fail_streak 1 and a retry_after in the future.
C14_Witness ==
    \E i \in DOMAIN trace :
        /\ trace[i].called /\ trace[i].obj = << >>
        /\ Len(trace[i].entry) = 1
        /\ trace[i].entry[1].pass_obj = Some(PassGood)
        /\ trace[i].entry[1].fail_streak = 0
        /\ _CACHE[trace[i].sat][1].pass_obj = Some(PassGood)
        /\ _CACHE[trace[i].sat][1].set_ts = 1200
        /\ _CACHE[trace[i].sat][1].fail_streak = 1
        /\ _CACHE[trace[i].sat][1].retry_after > trace[i].mono

\* C15: after a Fetcher success whose record has a parseable set timestamp,
\* the entry is exactly (that record, its set timestamp, retry_after 0,
\* fail_streak 0), whether there was no entry before, an expired one or one
\* whose backoff had elapsed, and the iteration ends with that record.
C15_SuccessReplacesEntry ==
    \A i \in DOMAIN trace :
        (trace[i].called /\ Len(trace[i].obj) = 1
            /\ trace[i].obj[1].set.utc_timestamp.k \in {"num", "str"})
        => _CACHE[trace[i].sat] =
              << [pass_obj |-> trace[i].obj,
                  set_ts |-> trace[i].obj[1].set.utc_timestamp.v,
                  retry_after |-> 0, fail_streak |-> 0] >>

\* C15 witness: a satellite whose entry held a record without set time and
\* a backoff that had elapsed is fetched with success at now_utc = 1050; its
\* entry is the new pass with set_ts 1200 and no backoff, and the satellite
\* is in the result.
C15_Witness ==
    \E i \in DOMAIN trace :
        /\ trace[i].called
        /\ Len(trace[i].entry) = 1
        /\ trace[i].entry[1].pass_obj = Some(PassNoSet)
        /\ trace[i].entry[1].fail_streak >= 1
        /\ trace[i].entry[1].retry_after > 0
        /\ trace[i].entry[1].retry_after <= trace[i].mono
        /\ trace[i].obj = Some(PassGood)
        /\ now_utc = 1050
        /\ _CACHE[trace[i].sat] = Some(_CacheEntry(Some(PassGood), 1200, 0, 0))
        /\ \E k \in DOMAIN results : results[k][1] = trace[i].sat

\* C16 as stated: after a Fetcher success whose record has no parseable set
\* timestamp the entry is (that record, set_ts 0, retry_after 0,
\* fail_streak 0) and the iteration ends with the record; and the next call
\* that visits the satellite calls the Fetcher for it.
C16_NoSetRefetchedNextCycle ==
    /\ \A i \in DOMAIN trace :
          (trace[i].called /\ Len(trace[i].obj) = 1
              /\ trace[i].obj[1].set.utc_timestamp.k \notin {"num", "str"})
          => _CACHE[trace[i].sat] =
                << [pass_obj |-> trace[i].obj, set_ts |-> 0,
                    retry_after |-> 0, fail_streak |-> 0] >>
    /\ pc = "returned" =>
          \A i \in DOMAIN trace : trace[i].sat \in lastNoSet => trace[i].called

\* C16 amended: after a Fetcher success whose record has no parseable set
\* timestamp the entry is (that record, set_ts 0, retry_after 0,
\* fail_streak 0) and the iteration ends with the record; in the next call,
\* and in every later call that finds the entry so, at a now_utc after the
\* epoch, the satellite is neither served from the cache nor skipped as in
\* backoff: the Fetcher is called for it if fetch budget is left when it is
\* reached, and otherwise it is deferred with nothing yielded.
C16_NoSetNeverServedFromCache ==
    /\ \A i \in DOMAIN trace :
          (trace[i].called /\ Len(trace[i].obj) = 1
              /\ trace[i].obj[1].set.utc_timestamp.k \notin {"num", "str"})
          => _CACHE[trace[i].sat] =
                << [pass_obj |-> trace[i].obj, set_ts |-> 0,
                    retry_after |-> 0, fail_streak |-> 0] >>
    /\ \A i \in DOMAIN trace :
          LET e == trace[i].entry
              noSet == /\ Len(e) = 1
                       /\ Len(e[1].pass_obj) = 1
                       /\ e[1].pass_obj[1].set.utc_timestamp.k \notin {"num", "str"}
                       /\ e[1].set_ts = 0 /\ e[1].retry_after = 0 /\ e[1].fail_streak = 0
          IN  /\ trace[i].sat \in lastNoSet => noSet
              /\ (noSet /\ now_utc > 0) =>
                    /\ trace[i].called = (trace[i].budget > 0)
                    /\ ~trace[i].called => trace[i].obj = << >>

\* C16 witness: a satellite for which the previous call stored a record
\* without set time is fetched again, this time with a complete record.
C16_Witness ==
    \E i \in DOMAIN trace :
        /\ trace[i].sat \in lastNoSet
        /\ trace[i].entry = Some(_CacheEntry(Some(PassNoSet), 0, 0, 0))
        /\ trace[i].called
        /\ trace[i].obj = Some(PassGood)
        /\ _CACHE[trace[i].sat] = Some(_CacheEntry(Some(PassGood), 1200, 0, 0))

\* C17: every Fetcher failure that is recorded in the entry sets a
\* retry_after strictly greater than the one the entry held before (than 0
\* if there was no entry), in particular across failures in a row; and every
\* Fetcher success leaves retry_after = 0.
C17_RetryAfterGrowsUntilSuccess ==
    \A i \in DOMAIN trace :
        LET e == trace[i].entry
            a == _CACHE[trace[i].sat]
            prevStreak == IF Len(e) = 1 THEN e[1].fail_streak ELSE 0
            prevRetry == IF Len(e) = 1 THEN e[1].retry_after ELSE 0
        IN  /\ (trace[i].called /\ trace[i].obj = << >>
                    /\ Len(a) = 1 /\ a[1].fail_streak # prevStreak)
                => a[1].retry_after > prevRetry
            /\ (trace[i].called /\ Len(trace[i].obj) = 1)
                => (Len(a) = 1 /\ a[1].retry_after = 0)

\* C17 witness: the eighth failure in a row, retried at the very deadline of
\* the seventh and with the jitter at its lowest, moved retry_after forward.
C17_Witness ==
    \E i \in DOMAIN trace :
        /\ trace[i].called /\ trace[i].obj = << >>
        /\ Len(trace[i].entry) = 1
        /\ trace[i].entry[1].fail_streak = 7
        /\ trace[i].entry[1].retry_after = trace[i].mono
        /\ _CACHE[trace[i].sat][1].fail_streak = 8
        /\ _CACHE[trace[i].sat][1].retry_after = trace[i].mono + 3240

\* C18 as stated: in every reachable state the set_ts of every entry is
\* non-negative and is the timestamp of the set point of the record the
\* entry stores.
C18_SetTsIsRecordSetTime ==
    \A s \in SatIds :
        Len(_CACHE[s]) = 1 =>
            /\ _CACHE[s][1].set_ts >= 0
            /\ Len(_CACHE[s][1].pass_obj) = 1 =>
                  /\ _CACHE[s][1].pass_obj[1].set.utc_timestamp.k \in {"num", "str"}
                  /\ _CACHE[s][1].pass_obj[1].set.utc_timestamp.v = _CACHE[s][1].set_ts

\* C18 amended: in every reachable state the set_ts of every entry is the
\* timestamp of the set point of the stored record if that timestamp parses
\* as an integer, and 0 if it does not parse or the entry stores no record;
\* so set_ts is non-negative unless the record's own set timestamp is
\* negative.
C18_SetTsIsParsedSetTimeOrZero ==
    \A s \in SatIds :
        Len(_CACHE[s]) = 1 =>
            LET e == _CACHE[s][1]
                parses == /\ Len(e.pass_obj) = 1
                          /\ e.pass_obj[1].set.utc_timestamp.k \in {"num", "str"}
            IN  /\ parses => e.set_ts = e.pass_obj[1].set.utc_timestamp.v
                /\ ~parses => e.set_ts = 0
                /\ (parses => e.pass_obj[1].set.utc_timestamp.v >= 0) => e.set_ts >= 0

\* C18 witness: one entry holds a complete record and its set time, another
\* holds a record without set time, set_ts 0 and a failure recorded after it.
C18_Witness ==
    \E s, t \in SatIds :
        /\ Len(_CACHE[s]) = 1 /\ Len(_CACHE[t]) = 1
        /\ _CACHE[s][1].pass_obj = Some(PassGood) /\ _CACHE[s][1].set_ts = 1200
        /\ _CACHE[t][1].pass_obj = Some(PassNoSet) /\ _CACHE[t][1].set_ts = 0
        /\ _CACHE[t][1].fail_streak = 1

\* C19: an iteration whose satellite is neither a cache hit nor in backoff
\* and that finds no fetch budget left does not call the Fetcher, yields
\* nothing, takes no budget and leaves the satellite's cache entry exactly as
\* it was (absent if it was absent); the satellite is not in the result.
C19_DeferredNoChange ==
    \A i \in DOMAIN trace :
        LET e == trace[i].entry IN
        (/\ ~(Len(e) = 1 /\ now_utc <= e[1].set_ts)
         /\ ~(Len(e) = 1 /\ trace[i].mono < e[1].retry_after)
         /\ trace[i].budget <= 0)
        => /\ ~trace[i].called
           /\ trace[i].obj = << >>
           /\ trace[i].spent = 0
           /\ _CACHE[trace[i].sat] = e
           /\ \A k \in DOMAIN results : results[k][1] # trace[i].sat

\* C19 witness: in a finished budget-1 cycle the Fetcher was called for the
\* first satellite; the second, whose entry holds an expired pass, was
\* deferred and its entry is as before.
C19_Witness ==
    /\ pc = "returned"
    /\ now_utc = 1201
    /\ Len(trace) = 2
    /\ trace[1].called
    /\ trace[2].budget = 0
    /\ trace[2].entry = Some(_CacheEntry(Some(PassGood), 1200, 0, 0))
    /\ ~trace[2].called
    /\ _CACHE[trace[2].sat] = trace[2].entry

\* C20: a call over an empty satellite list returns at once with an empty
\* result and without a loop iteration, so without a Fetcher call; neither
\* the step into the call nor the return from it changes _CACHE or _RR_IDX.
C20_EmptyListNoOp ==
    [][ /\ (pc = "idle" /\ pc' # "idle" /\ Len(cfg'.satellites) = 0)
            => /\ pc' = "returned"
               /\ results' = << >>
               /\ trace' = << >>
               /\ _CACHE' = _CACHE
               /\ _RR_IDX' = _RR_IDX
        /\ (pc # "idle" /\ Len(cfg.satellites) = 0)
            => /\ pc' = "idle"
               /\ _CACHE' = _CACHE
               /\ _RR_IDX' = _RR_IDX ]_vars

\* C20 witness: a call over the empty list has returned while the scheduler
\* index is 1 and the cache holds an entry in backoff; the index is the one
\* the call began with.
C20_Witness ==
    /\ pc = "returned"
    /\ Len(cfg.satellites) = 0
    /\ results = << >>
    /\ trace = << >>
    /\ _RR_IDX = 1
    /\ rr0 = 1
    /\ \E s \in SatIds : Len(_CACHE[s]) = 1 /\ _CACHE[s][1].fail_streak = 1

\* C25: the wall clock has no part in the backoff.  The retry_after a
\* recorded Fetcher failure sets is the monotonic clock reading of that
\* failure plus a delay fixed by the number of failures in a row and the
\* jitter draw alone, the same at every now_utc; and the Fetcher is not
\* called for a satellite while mono < retry_after, whatever now_utc is.
C25_BackoffIgnoresWallClock ==
    \A i \in DOMAIN trace :
        LET e == trace[i].entry
            a == _CACHE[trace[i].sat]
            prevStreak == IF Len(e) = 1 THEN e[1].fail_streak ELSE 0
            d == IF prevStreak = 0 THEN 60 ELSE IF prevStreak = 1 THEN 120
                 ELSE IF prevStreak = 2 THEN 240 ELSE IF prevStreak = 3 THEN 480
                 ELSE IF prevStreak = 4 THEN 960 ELSE IF prevStreak = 5 THEN 1920
                 ELSE 3600
        IN  /\ (trace[i].called /\ trace[i].obj = << >>
                    /\ Len(a) = 1 /\ a[1].fail_streak # prevStreak)
                => \E jit \in Jitters :
                       a[1].retry_after = trace[i].mono + d + ((d * jit) \div 100)
            /\ (Len(e) = 1 /\ trace[i].mono < e[1].retry_after) => ~trace[i].called

\* C25 witness: at now_utc = 1201 the Fetcher failed a second time in a row
\* for a satellite whose entry holds an expired pass, 120 s of backoff
\* counted from the monotonic clock; the other satellite, still in backoff
\* on the monotonic clock, was not fetched.
C25_Witness ==
    /\ now_utc = 1201
    /\ \E i, j \in DOMAIN trace :
         /\ trace[i].called /\ trace[i].obj = << >>
         /\ Len(trace[i].entry) = 1
         /\ trace[i].entry[1].pass_obj = Some(PassGood)
         /\ trace[i].entry[1].fail_streak = 1
         /\ trace[i].mono = 60
         /\ _CACHE[trace[i].sat][1].retry_after = 180
         /\ Len(trace[j].entry) = 1
         /\ trace[j].mono < trace[j].entry[1].retry_after
         /\ ~trace[j].called

(***************************************************************************)
(* Properties of the window calculator (WindowSpec).  w_in is the input,    *)
(* w_out the window and the inclusion verdict computed from it.             *)
(***************************************************************************)
Numeric(f) == f.k \in {"num", "str"}
AllNumeric(p) ==
    /\ Numeric(p.rise.utc_timestamp) /\ Numeric(p.rise.alt)
    /\ Numeric(p.culmination.utc_timestamp) /\ Numeric(p.culmination.alt)
    /\ Numeric(p.set.utc_timestamp) /\ Numeric(p.set.alt)

\* C7: when the culmination altitude is below the threshold the window is
\* 'never' and the satellite is not overhead, for every now_utc and whatever
\* the rise and set points hold.
C7_PeakBelowNever ==
    (Len(w_out) = 1
        /\ Numeric(w_in[1].pass_obj.culmination.alt)
        /\ w_in[1].pass_obj.culmination.alt.v < w_in[1].min_elev)
    => (w_out[1].window = << >> /\ ~w_out[1].overhead)

\* C7 witness: a pass whose rise and set are at or above the threshold and
\* whose culmination is below it, evaluated at a moment between rise and set.
C7_Witness ==
    /\ Len(w_out) = 1
    /\ AllNumeric(w_in[1].pass_obj)
    /\ w_in[1].pass_obj.culmination.alt.v < w_in[1].min_elev
    /\ w_in[1].pass_obj.rise.alt.v >= w_in[1].min_elev
    /\ w_in[1].pass_obj.set.alt.v >= w_in[1].min_elev
    /\ w_in[1].pass_obj.rise.utc_timestamp.v <= w_in[1].now_utc
    /\ w_in[1].now_utc <= w_in[1].pass_obj.set.utc_timestamp.v
    /\ w_out[1].window = << >>

\* x is an integer nearest to the rational p / q (q > 0)
IsNearest(x, p, q) == 2 * x * q - 2 * p <= q /\ 2 * p - 2 * x * q <= q

\* C8: with six numeric fields and culmination altitude >= threshold the
\* window exists; enter is the rise time if the rise altitude >= threshold,
\* else rise + (m - ar) / (ac - ar) * (tc - tr) rounded to a nearest second;
\* exit is the set time if the set altitude >= threshold, else
\* tc + (ac - m) / (ac - aS) * (ts - tc) rounded to a nearest second.  For
\* rise 1000@10, culmination 1100@46, set 1200@10 and threshold 28 the window
\* is (1050, 1150): 1050 and 1150 are included, 1049 and 1151 are not.
C8_WindowInterpolation ==
    (Len(w_out) = 1 /\ AllNumeric(w_in[1].pass_obj)
        /\ w_in[1].pass_obj.culmination.alt.v >= w_in[1].min_elev)
    => LET p == w_in[1].pass_obj
           m == w_in[1].min_elev
           tr == p.rise.utc_timestamp.v
           tc == p.culmination.utc_timestamp.v
           ts == p.set.utc_timestamp.v
           ar == p.rise.alt.v
           ac == p.culmination.alt.v
           aS == p.set.alt.v
           w == w_out[1].window
       IN  /\ Len(w) = 1
           /\ IF ar >= m THEN w[1][1] = tr
              ELSE IsNearest(w[1][1], tr * (ac - ar) + (m - ar) * (tc - tr), ac - ar)
           /\ IF aS >= m THEN w[1][2] = ts
              ELSE IsNearest(w[1][2], tc * (ac - aS) + (ac - m) * (ts - tc), ac - aS)
           /\ (tr = 1000 /\ ar = 10 /\ tc = 1100 /\ ac = 46 /\ ts = 1200 /\ aS = 10 /\ m = 28)
                => /\ w[1] = <<1050, 1150>>
                   /\ w_out[1].overhead = (w_in[1].now_utc \in {1050, 1150})

\* C8 witness: the example pass evaluated at 1150, the exit edge, and found
\* overhead.
C8_Witness ==
    /\ Len(w_out) = 1
    /\ w_in[1].pass_obj = Pass(Point(Num(1000), Str(10)), Point(Num(1100), Str(46)),
                               Point(Num(1200), Str(10)))
    /\ w_in[1].min_elev = 28
    /\ w_in[1].now_utc = 1150
    /\ w_out[1].window = Some(<<1050, 1150>>)
    /\ w_out[1].overhead

\* C9 as stated: every window returned, for any pass object and threshold,
\* has enter <= exit.
C9_EnterLeExit_AnyRecord ==
    (Len(w_out) = 1 /\ Len(w_out[1].window) = 1)
        => w_out[1].window[1][1] <= w_out[1].window[1][2]

\* C9 amended: every window returned for a pass object whose timestamps are
\* in order, rise <= culmination <= set, has enter <= exit.
C9_EnterLeExit_Ordered ==
    (Len(w_out) = 1 /\ Len(w_out[1].window) = 1
        /\ w_in[1].pass_obj.rise.utc_timestamp.v <= w_in[1].pass_obj.culmination.utc_timestamp.v
        /\ w_in[1].pass_obj.culmination.utc_timestamp.v <= w_in[1].pass_obj.set.utc_timestamp.v)
    => w_out[1].window[1][1] <= w_out[1].window[1][2]

\* C9 witness: an ordered pass whose window was interpolated on both legs.
C9_Witness ==
    /\ Len(w_out) = 1 /\ Len(w_out[1].window) = 1
    /\ w_in[1].pass_obj.rise.utc_timestamp.v < w_in[1].pass_obj.culmination.utc_timestamp.v
    /\ w_in[1].pass_obj.culmination.utc_timestamp.v < w_in[1].pass_obj.set.utc_timestamp.v
    /\ w_in[1].pass_obj.rise.alt.v < w_in[1].min_elev
    /\ w_in[1].pass_obj.set.alt.v < w_in[1].min_elev
    /\ w_in[1].pass_obj.rise.utc_timestamp.v < w_out[1].window[1][1]
    /\ w_out[1].window[1][1] < w_out[1].window[1][2]
    /\ w_out[1].window[1][2] < w_in[1].pass_obj.set.utc_timestamp.v

\* C11: when any of the six fields (rise, culmination or set timestamp or
\* altitude) is missing or is a string that is not a number, the calculator
\* returns 'never' (it returns, nothing is raised) and the satellite is not
\* overhead, whatever the other fields, the threshold and now_utc are.
C11_MalformedNever ==
    (Len(w_out) = 1
        /\ \E f \in { w_in[1].pass_obj.rise.utc_timestamp, w_in[1].pass_obj.rise.alt,
                       w_in[1].pass_obj.culmination.utc_timestamp,
                       w_in[1].pass_obj.culmination.alt,
                       w_in[1].pass_obj.set.utc_timestamp, w_in[1].pass_obj.set.alt } :
               f.k \in {"bad", "none"})
    => (w_out[1].window = << >> /\ ~w_out[1].overhead)

\* C11 witness: a pass whose only malformed field is the set altitude, a
\* string that is not a number; peak above the threshold, now_utc between
\* rise and set, and the result is 'never'.
C11_Witness ==
    /\ Len(w_out) = 1
    /\ w_in[1].pass_obj = Pass(Point(Num(1000), Str(46)), Point(Num(1100), Str(46)),
                               Point(Num(1200), Bad))
    /\ w_in[1].now_utc = 1050
    /\ w_out[1].window = << >>
    /\ ~w_out[1].overhead

(***************************************************************************)
(* The HTTP client: one call of fetch_next_pass against an endpoint whose   *)
(* answers to the first and the second request are drawn from every way a   *)
(* request can end.                                                         *)
(***************************************************************************)
\* api.py:51
attempts == 2

\* s.get raised exc ("" when it returned); otherwise the status code and what
\* resp.json() gives: "invalid" when it raises ValueError, else the data
Reply(exc, status_code, json) == [exc |-> exc, status_code |-> status_code, json |-> json]

JsonInvalid == [k |-> "invalid", v |-> << >>]
JsonDict    == [k |-> "dict", v |-> << >>]
JsonList(items) == [k |-> "list", v |-> items]
\* a list item that is not an object
NotADict == [k |-> "str"]

ServerReplies ==
    { Reply("Timeout", 0, JsonInvalid),
      Reply("ConnectionError", 0, JsonInvalid),
      Reply("", 500, JsonInvalid),
      Reply("", 200, JsonInvalid),
      Reply("", 200, JsonDict),
      Reply("", 200, JsonList(<< >>)),
      Reply("", 200, JsonList(<< NotADict >>)),
      Reply("", 200, JsonList(<< PassGood >>)) }

\* mutant of CaughtAsTimeout: every request error is retried
CaughtAsTimeout_anyError(exc) == exc # ""

\* api.py:78: except Timeout
CaughtAsTimeout(exc) == exc = "Timeout"

\* api.py:84-86: except RequestException (ConnectionError is one)
CaughtAsRequestException(exc) == exc \in {"ConnectionError", "Timeout"}

\* isinstance(first, dict): the pass records are the objects
IsDict(item) == item = PassGood

\* api.py:53-88, one iteration of the for loop: what it does after the answer
\* of the request: "continue", "return" (with ret) or "raise"
AttemptOutcome(reply, n) ==
    IF reply.exc # ""
    THEN IF CaughtAsTimeout(reply.exc)
         THEN IF n < attempts
              THEN [do |-> "continue", ret |-> None]
              ELSE [do |-> "return", ret |-> None]
         ELSE IF CaughtAsRequestException(reply.exc)
         THEN [do |-> "return", ret |-> None]
         ELSE [do |-> "raise", ret |-> None]
    ELSE IF reply.status_code # 200
    THEN [do |-> "return", ret |-> None]
    ELSE IF reply.json.k = "invalid"
    THEN [do |-> "return", ret |-> None]
    ELSE IF reply.json.k # "list" \/ Len(reply.json.v) = 0
    THEN [do |-> "return", ret |-> None]
    ELSE LET first == reply.json.v[1]
         IN  IF ~IsDict(first)
             THEN [do |-> "return", ret |-> None]
             ELSE [do |-> "return", ret |-> Some(first)]

FetchInit ==
    /\ CoreIdle
    /\ FormatIdle
    /\ EmitIdle
    /\ outputs = << >>
    /\ endpoint \in {Some([norad_id |-> id, replies |-> << r1, r2 >>]) :
                       id \in SatIds, r1 \in ServerReplies, r2 \in ServerReplies}
    /\ attempt = 0
    /\ http_log = << >>
    /\ fetch_out = None

\* api.py:52-88: the next iteration of the loop sends its request and handles
\* the answer
Attempt ==
    /\ IsSome(endpoint)
    /\ fetch_out = None
    /\ attempt < attempts
    /\ LET n == attempt + 1
           reply == Val(endpoint).replies[n]
           out == AttemptOutcome(reply, n)
       IN  /\ attempt' = n
           /\ http_log' = Append(http_log, [norad_id |-> Val(endpoint).norad_id,
                                             reply |-> reply])
           /\ fetch_out' = IF out.do = "continue"
                           THEN None
                           ELSE Some([raised |-> out.do = "raise", ret |-> out.ret])
    /\ UNCHANGED << endpoint >>
    /\ UNCHANGED cycleVars
    /\ UNCHANGED windowVars
    /\ UNCHANGED formatVars
    /\ UNCHANGED emitVars

\* (the return after the loop, api.py:90-91, is never reached: the second
\* iteration returns whatever the answer is)
FetchNext == Attempt

FetchSpec == FetchInit /\ [][FetchNext]_vars

(***************************************************************************)
(* The emitter: cycles of run_once / run_forever.  Each cycle calls         *)
(* visible_now with a budget of one fetch, formats what it returns, hands   *)
(* the line to every configured output, and sleeps for the rest of the      *)
(* period.  A sink may raise on any call; the time a cycle takes is drawn   *)
(* from values below, at and above the period.                              *)
(***************************************************************************)
\* emit.py:21
_PERIOD_SEC == 10

\* cycles one run goes through
MaxCycles == 2

\* out.startswith(prefix)
StartsWith(str, prefix) == Len(str) >= Len(prefix) /\ SubSeq(str, 1, Len(prefix)) = prefix

\* the position of the first ":" of str from position from on, 0 if there is none
FirstColon(str, from) ==
    LET at == {i \in from..Len(str) : SubSeq(str, i, i) = ":"}
    IN  IF at = {} THEN 0 ELSE CHOOSE i \in at : \A j \in at : i <= j

Digits == << "0", "1", "2", "3", "4", "5", "6", "7", "8", "9" >>

IsDigits(str) ==
    /\ Len(str) > 0
    /\ \A i \in 1..Len(str) : \E d \in DOMAIN Digits : SubSeq(str, i, i) = Digits[d]

\* int(port_str) of a string of digits
RECURSIVE ParseInt(_)
ParseInt(str) ==
    IF Len(str) = 0 THEN 0
    ELSE LET last == SubSeq(str, Len(str), Len(str))
             d == CHOOSE k \in DOMAIN Digits : Digits[k] = last
         IN  10 * ParseInt(SubSeq(str, 1, Len(str) - 1)) + (d - 1)

SinkCall(sink, target, port, text) ==
    [sink |-> sink, target |-> target, port |-> port, line |-> text, error |-> ""]
\* no sink is called: the output is not an allowed one, or its port is no number
NoSinkCall(error) ==
    [sink |-> "", target |-> "", port |-> 0, line |-> "", error |-> error]

\* mutant of Dispatch: only the console is served
Dispatch_stdoutOnly(out, text) ==
    IF out = "stdout" THEN SinkCall("stdout_sink", "", 0, text) ELSE NoSinkCall("disallowed")

\* emit.py:28-38: the sink call one entry of cfg.outputs leads to
Dispatch(out, text) ==
    IF out = "stdout"
    THEN SinkCall("stdout_sink", "", 0, text)
    ELSE IF StartsWith(out, "file:")
    THEN SinkCall("file_sink", SubSeq(out, 6, Len(out)), 0, text)
    ELSE IF StartsWith(out, "tcp:")
    THEN LET colon == FirstColon(out, 5)
         IN  IF colon = 0
             THEN NoSinkCall("ValueError")
             ELSE LET host == SubSeq(out, 5, colon - 1)
                      port_str == SubSeq(out, colon + 1, Len(out))
                  IN  IF IsDigits(port_str)
                      THEN SinkCall("tcp_sink", host, ParseInt(port_str), text)
                      ELSE NoSinkCall("ValueError")
    ELSE NoSinkCall("disallowed")

\* exceptions a sink raises ("" when it returns): the console, the file or
\* the connection fails
SinkExceptions == {"", "OSError"}

\* mutant of IsException: the handler lets the error through
IsException_uncaught(exc) == FALSE

\* emit.py:39: except Exception
IsException(exc) == exc \in {"OSError", "ValueError", "RuntimeError"}

\* mutant of Delay: the loop sleeps a whole period
Delay_wholePeriod(took) == _PERIOD_SEC

\* emit.py:65, 93: delay = _PERIOD_SEC - elapsed
Delay(took) == _PERIOD_SEC - took

\* emit.py:66, 94: run_forever sleeps whenever the delay is positive,
\* run_once only if do_sleep is set
ShouldSleep(flag, d) == flag /\ d > 0

\* cfg.outputs after validation (config.py:103-135): a non-empty list of
\* 'stdout', 'file:<path>' and 'tcp:<host>:<port>'
OutputLists ==
    { << "stdout" >>,
      << "stdout", "file:/tmp/out.txt", "tcp:127.0.0.1:9000" >>,
      << "tcp:127.0.0.1:9000", "stdout" >> }

EmitConfigs == {AppConfig(SatItems)}
EmitUtcValues == {1050, 1201}
\* mutant of EmitCaps: the emitter leaves the budget at its default
EmitCaps_default == {None}

\* emit.py:55, 86: max_fetches_per_tick=1
EmitCaps == {Some(1)}
EmitOutcomes == {None, Some(PassGood)}
EmitJitters == {0}
\* monotonic seconds a cycle takes up to the second reading of the clock
EmitDurations == {3, 10, 12}
DoSleepFlags == BOOLEAN

EmitInit ==
    /\ CoreIdle
    /\ FormatIdle
    /\ FetchIdle
    /\ EmitIdle
    /\ outputs \in OutputLists

\* emit.py:52, 85: t0 = monotonic_fn()
StartCycle(flags) ==
    /\ e_pc = "idle"
    /\ pc = "idle"
    /\ Len(cycles) < MaxCycles
    /\ \E flag \in flags : do_sleep' = flag
    /\ t0' = mono
    /\ e_pc' = "visible"
    /\ e_pairs' = << >>
    /\ line' = ""
    /\ out_idx' = 1
    /\ sink_calls' = << >>
    /\ elapsed' = 0
    /\ sleep_delay' = 0
    /\ UNCHANGED << outputs, cycles >>
    /\ UNCHANGED << cycleVars, windowVars, formatVars, fetchVars >>

\* emit.py:54-56, 86: the call of visible_now
CallVisibleNow ==
    /\ e_pc = "visible"
    /\ Begin(EmitConfigs, EmitUtcValues, EmitCaps)

\* emit.py:54-62, 86-90: visible_now is back; a non-empty result is formatted
GotPairs ==
    /\ e_pc = "visible"
    /\ ReturnFrame
    /\ IF pc = "raised"
       THEN /\ e_pc' = "raised"
            /\ UNCHANGED << e_pairs, line >>
       ELSE /\ e_pairs' = results
            /\ line' = IF Len(results) > 0 THEN format_line(results) ELSE ""
            /\ e_pc' = IF Len(results) > 0 /\ line' # "" THEN "emit" ELSE "measure"
    /\ UNCHANGED << outputs, do_sleep, t0, out_idx, sink_calls, elapsed, sleep_delay,
                    cycles >>
    /\ UNCHANGED << formatVars, fetchVars >>

\* emit.py:26-40: one iteration of the loop of _emit_to_outputs
EmitToOutput(excs) ==
    /\ e_pc = "emit"
    /\ out_idx <= Len(outputs)
    /\ LET out == outputs[out_idx]
           call == Dispatch(out, line)
       IN  \E raised \in excs :
             LET exc == IF call.sink = "" THEN call.error ELSE raised
                 ended == IF call.error = "disallowed" THEN "logged"
                          ELSE IF exc = "" THEN "ok"
                          ELSE IF IsException(exc) THEN "logged"
                          ELSE "propagated"
             IN  /\ (call.sink = "" => raised = "")
                 /\ sink_calls' = Append(sink_calls,
                                         [out |-> out, call |-> call, ended |-> ended])
                 /\ IF ended = "propagated"
                    THEN e_pc' = "raised" /\ out_idx' = out_idx
                    ELSE e_pc' = e_pc /\ out_idx' = out_idx + 1
    /\ UNCHANGED << outputs, do_sleep, t0, e_pairs, line, elapsed, sleep_delay, cycles >>
    /\ UNCHANGED << cycleVars, windowVars, formatVars, fetchVars >>

\* emit.py:26: the loop over cfg.outputs is over
OutputsDone ==
    /\ e_pc = "emit"
    /\ out_idx > Len(outputs)
    /\ e_pc' = "measure"
    /\ UNCHANGED << outputs, do_sleep, t0, e_pairs, line, out_idx, sink_calls, elapsed,
                    sleep_delay, cycles >>
    /\ UNCHANGED << cycleVars, windowVars, formatVars, fetchVars >>

\* emit.py:64-65, 92-93: the second reading of the clock, after the time the
\* cycle took
Measure(durations) ==
    /\ e_pc = "measure"
    /\ \E d \in durations :
         /\ mono' = mono + d
         /\ elapsed' = mono' - t0
         /\ sleep_delay' = Delay(elapsed')
    /\ e_pc' = "sleep"
    /\ UNCHANGED << outputs, do_sleep, t0, e_pairs, line, out_idx, sink_calls, cycles >>
    /\ UNCHANGED << _CACHE, _RR_IDX, pc, cfg, now_utc, ordered, pos, max_fetches_per_tick,
                    fetch_budget, results, trace, rr0, rrLog, lastNoSet, resetFrom, unserved, failures >>
    /\ UNCHANGED << windowVars, formatVars, fetchVars >>

\* emit.py:66-67, 94-95: sleep_fn(delay) returns delay seconds later; the
\* cycle is over
Sleep ==
    /\ e_pc = "sleep"
    /\ LET sleeps == ShouldSleep(do_sleep, sleep_delay)
       IN  /\ mono' = IF sleeps THEN mono + sleep_delay ELSE mono
           /\ cycles' = Append(cycles, [t0 |-> t0, elapsed |-> elapsed,
                                        do_sleep |-> do_sleep,
                                        slept |-> IF sleeps THEN Some(sleep_delay) ELSE None])
    /\ e_pc' = "idle"
    /\ UNCHANGED << outputs, do_sleep, t0, e_pairs, line, out_idx, sink_calls, elapsed,
                    sleep_delay >>
    /\ UNCHANGED << _CACHE, _RR_IDX, pc, cfg, now_utc, ordered, pos, max_fetches_per_tick,
                    fetch_budget, results, trace, rr0, rrLog, lastNoSet, resetFrom, unserved, failures >>
    /\ UNCHANGED << windowVars, formatVars, fetchVars >>

EmitNext ==
    \/ StartCycle(DoSleepFlags)
    \/ CallVisibleNow
    \/ Step(EmitOutcomes, EmitJitters)
    \/ EndCycle
    \/ GotPairs
    \/ EmitToOutput(SinkExceptions)
    \/ OutputsDone
    \/ Measure(EmitDurations)
    \/ Sleep

EmitSpec == EmitInit /\ [][EmitNext]_vars

(***************************************************************************)
(* Properties of the formatter (FormatSpec).                                *)
(***************************************************************************)
\* the pairs of a set written out by ascending id: the smallest id first,
\* then a separator and the rest, if there is a rest
RECURSIVE AscendingLine(_)
AscendingLine(S) ==
    IF S = {} THEN ""
    ELSE LET p == CHOOSE x \in S : \A y \in S : x[1] <= y[1]
             rest == S \ {p}
         IN  ToString(p[1]) \o ": " \o p[2]
             \o (IF rest = {} THEN "" ELSE ", " \o AscendingLine(rest))

PairSet(pairs) == {pairs[i] : i \in DOMAIN pairs}

\* C28: format_line returns the pairs in ascending order of satellite id,
\* each as 'id: color', joined by ', ' with no trailing separator, and the
\* empty string for the empty list; every list holding the same pairs in
\* another order gives the same line.
C28_LineSortedAndOrderFree ==
    Len(f_out) = 1 =>
      /\ f_out[1] = AscendingLine(PairSet(f_in[1]))
      /\ (f_in[1] = << >> => f_out[1] = "")
      /\ \A other \in FInputs :
            PairSet(other) = PairSet(f_in[1]) => format_line(other) = f_out[1]

\* the formatter's own test, with a third satellite whose id is shorter:
\* the pairs arrive in rotation order and leave in id order
C28_Witness ==
    /\ Len(f_out) = 1
    /\ f_in[1] = << <<48915, "pink">>, <<901, "red">>, <<25544, "blue">> >>
    /\ f_out[1] = "901: red, 25544: blue, 48915: pink"

(***************************************************************************)
(* Properties of the HTTP client (FetchSpec).                               *)
(***************************************************************************)
Ended == Len(fetch_out) = 1
ReturnedNothing == Ended /\ ~fetch_out[1].raised /\ fetch_out[1].ret = << >>
FirstReply == endpoint[1].replies[1]
SecondReply == endpoint[1].replies[2]

\* C29: fetch_next_pass sends at most two requests per call, the second only
\* if the first timed out; on a non-200 status, invalid JSON, a body that is
\* empty or not a list, or a request error other than a timeout it returns
\* nothing after that one request; when both requests time out it returns
\* nothing and does not raise.
C29_OneRetryOnTimeoutOnly ==
    /\ Len(http_log) <= 2
    /\ (Len(http_log) = 2 => http_log[1].reply.exc = "Timeout")
    /\ (Len(http_log) >= 1 /\ Len(endpoint) = 1 =>
          /\ (\/ FirstReply.exc = "ConnectionError"
              \/ FirstReply.exc = "" /\ FirstReply.status_code # 200
              \/ FirstReply.exc = "" /\ FirstReply.json.k = "invalid"
              \/ FirstReply.exc = "" /\ FirstReply.json.k = "dict"
              \/ FirstReply.exc = "" /\ FirstReply.json = JsonList(<< >>))
             => Len(http_log) = 1 /\ ReturnedNothing
          /\ (Len(http_log) = 2 /\ SecondReply.exc = "Timeout") => ReturnedNothing
          /\ (Len(http_log) = 2 => Ended)
          /\ (Ended => ~fetch_out[1].raised))

\* both requests timed out: two requests were sent and the call returned
\* nothing
C29_Witness ==
    /\ Len(http_log) = 2
    /\ http_log[1].reply.exc = "Timeout"
    /\ http_log[2].reply.exc = "Timeout"
    /\ ReturnedNothing

(***************************************************************************)
(* Properties of the emitter (EmitSpec).                                    *)
(***************************************************************************)
\* the loop over the outputs of this cycle is behind
EmitPhaseOver == e_pc \in {"measure", "sleep"} \/ (e_pc = "idle" /\ Len(cycles) > 0)

\* the sink call an output of the configuration stands for
ExpectedCall(out, text) ==
    IF out = "stdout"
    THEN [sink |-> "stdout_sink", target |-> "", port |-> 0, line |-> text, error |-> ""]
    ELSE IF out = "file:/tmp/out.txt"
    THEN [sink |-> "file_sink", target |-> "/tmp/out.txt", port |-> 0, line |-> text,
          error |-> ""]
    ELSE [sink |-> "tcp_sink", target |-> "127.0.0.1", port |-> 9000, line |-> text,
          error |-> ""]

\* C26: in one emitter cycle, when visible_now returns no satellite no sink
\* is called; when it returns at least one, the sink of every configured
\* output is called exactly once with the one formatted line, in the order
\* of the configuration.
C26_LineToEverySinkOnce ==
    /\ (e_pairs = << >> => sink_calls = << >>)
    /\ (e_pc = "emit" => Len(sink_calls) = out_idx - 1 /\ Len(sink_calls) <= Len(outputs))
    /\ (EmitPhaseOver /\ e_pairs # << >> =>
          /\ Len(sink_calls) = Len(outputs)
          /\ \A i \in 1..Len(outputs) :
                /\ sink_calls[i].out = outputs[i]
                /\ sink_calls[i].call =
                      ExpectedCall(outputs[i], AscendingLine(PairSet(e_pairs))))

\* both satellites are overhead, the second one first in rotation order;
\* console, file and socket were each handed the line
C26_Witness ==
    /\ e_pc = "sleep"
    /\ e_pairs = << <<48915, "pink">>, <<25544, "blue">> >>
    /\ outputs = << "stdout", "file:/tmp/out.txt", "tcp:127.0.0.1:9000" >>
    /\ Len(sink_calls) = 3
    /\ \A i \in 1..3 : sink_calls[i].ended = "ok"
                        /\ sink_calls[i].call.line = "25544: blue, 48915: pink"

\* C27: an exception in one sink does not keep the line from the others:
\* the sinks configured before and after the failing one are still called
\* with the line in that cycle, and the cycle goes on without raising.
C27_SinkFailureIsolated ==
    /\ (sink_calls # << >> => e_pc # "raised")
    /\ (e_pc = "emit" /\ (\E i \in 1..Len(sink_calls) : sink_calls[i].ended # "ok")
          => out_idx = Len(sink_calls) + 1)
    /\ (EmitPhaseOver /\ (\E i \in 1..Len(sink_calls) : sink_calls[i].ended # "ok") =>
          /\ Len(sink_calls) = Len(outputs)
          /\ \A j \in 1..Len(outputs) :
                /\ sink_calls[j].out = outputs[j]
                /\ sink_calls[j].call.sink # ""
                /\ sink_calls[j].call.line = line
                /\ line # "")

\* the file sink fails between the console and the socket; both get the
\* line, and the cycle ends
C27_Witness ==
    /\ e_pc = "idle"
    /\ Len(cycles) > 0
    /\ outputs = << "stdout", "file:/tmp/out.txt", "tcp:127.0.0.1:9000" >>
    /\ Len(sink_calls) = 3
    /\ sink_calls[1].ended = "ok"
    /\ sink_calls[2].ended = "logged"
    /\ sink_calls[3].ended = "ok"
    /\ sink_calls[3].call.line = "25544: blue"

\* C32: the emitter evaluates every cycle with a fetch budget of 1, so in
\* no cycle of a run is the Fetcher called more than once, over all
\* satellites.
C32_OneFetchPerCycle ==
    /\ (pc # "idle" => max_fetches_per_tick = << 1 >>)
    /\ (pc = "loop" => fetch_budget \in {0, 1})
    /\ Cardinality({i \in DOMAIN trace : trace[i].called}) <= 1

\* the second cycle of a run: neither satellite has a usable record when it
\* begins, the Fetcher is called for the first of the rotation and the other
\* one goes without
C32_Witness ==
    /\ e_pc = "visible"
    /\ pc = "returned"
    /\ Len(cycles) = 1
    /\ Len(trace) = 2
    /\ trace[1].called
    /\ ~trace[2].called
    /\ trace[2].budget = 0
    /\ (trace[2].entry = << >> \/ now_utc > trace[2].entry[1].set_ts)
    /\ (trace[2].entry = << >> \/ trace[2].mono >= trace[2].entry[1].retry_after)

\* the start of the cycle after cycle i, if it has started
NextStart(i) ==
    IF i < Len(cycles) THEN Some(cycles[i + 1].t0)
    ELSE IF e_pc # "idle" THEN Some(t0)
    ELSE None

\* C30: after a cycle the loop sleeps for exactly 10 seconds minus the
\* monotonic time the cycle took when that is positive, and not at all when
\* the cycle took 10 seconds or more or do_sleep is false; so the cycle after
\* one that took less than 10 seconds (and slept) starts 10 seconds after it.
C30_SleepsRestOfPeriod ==
    \A i \in 1..Len(cycles) :
      LET c == cycles[i]
      IN  /\ (c.do_sleep /\ c.elapsed < 10 => c.slept = << 10 - c.elapsed >>)
          /\ (c.elapsed >= 10 \/ ~c.do_sleep => c.slept = << >>)
          /\ (c.do_sleep /\ c.elapsed < 10 /\ NextStart(i) # << >>
                => NextStart(i)[1] - c.t0 = 10)

\* the first cycle starts at 0 and takes 3 seconds, the loop sleeps 7, the
\* second cycle starts at 10, takes 12 seconds and is not followed by a sleep
C30_Witness ==
    /\ Len(cycles) = 2
    /\ cycles[1] = [t0 |-> 0, elapsed |-> 3, do_sleep |-> TRUE, slept |-> << 7 >>]
    /\ cycles[2] = [t0 |-> 10, elapsed |-> 12, do_sleep |-> TRUE, slept |-> << >>]

(***************************************************************************)
(* The guards of the window calculator (WindowSpec).                        *)
(***************************************************************************)

\* C35: when all six fields of the record are numeric and the culmination
\* altitude is at or above the threshold, the calculator returns a window:
\* with rise altitude < threshold <= culmination altitude the ascending leg
\* has its crossing, with set altitude < threshold <= culmination altitude
\* the descending leg has its crossing, so neither the 'never' after the
\* ascending leg nor the fallback to the set time is taken.
C35_GuardsNeverTaken ==
    (/\ Len(w_out) = 1
     /\ w_in[1].pass_obj.rise.utc_timestamp.k \in {"num", "str"}
     /\ w_in[1].pass_obj.culmination.utc_timestamp.k \in {"num", "str"}
     /\ w_in[1].pass_obj.set.utc_timestamp.k \in {"num", "str"}
     /\ w_in[1].pass_obj.rise.alt.k \in {"num", "str"}
     /\ w_in[1].pass_obj.culmination.alt.k \in {"num", "str"}
     /\ w_in[1].pass_obj.set.alt.k \in {"num", "str"}
     /\ w_in[1].pass_obj.culmination.alt.v >= w_in[1].min_elev)
    => /\ Len(w_out[1].window) = 1
       /\ ~w_out[1].guards.ascending_never
       /\ ~w_out[1].guards.descending_fallback

\* the culmination is exactly at the threshold, rise and set are below it:
\* both legs cross at their culmination end, and the window is that instant
C35_Witness ==
    /\ Len(w_out) = 1
    /\ w_in[1].pass_obj = Pass(Point(Num(1000), Str(10)), Point(Num(1100), Str(28)),
                               Point(Num(1200), Str(10)))
    /\ w_in[1].min_elev = 28
    /\ w_out[1].window = << <<1100, 1100>> >>
    /\ ~w_out[1].guards.ascending_never
    /\ ~w_out[1].guards.descending_fallback

(***************************************************************************)
(* What a step may change in the cache (Spec).                              *)
(***************************************************************************)

\* C33: a step changes the cache only if it is a loop iteration in which the
\* Fetcher is called, and then only the entry of the satellite being
\* fetched: an iteration that finds a cache hit or a running backoff leaves
\* every entry as it was, and so does every step outside the loop (the reset
\* apart, which empties the cache between calls).
C33_OnlyFetchWritesOwnEntry ==
    [][ /\ (_CACHE' # _CACHE /\ ~(pc = "idle" /\ pc' = "idle") =>
              /\ pc = "loop"
              /\ pos <= Len(ordered)
              /\ Len(trace') = Len(trace) + 1
              /\ trace'[Len(trace')].called
              /\ trace'[Len(trace')].sat = ordered[pos][1]
              /\ \A s \in SatIds : s # ordered[pos][1] => _CACHE'[s] = _CACHE[s])
        /\ (_CACHE' # _CACHE /\ pc = "idle" /\ pc' = "idle" =>
              \A s \in SatIds : _CACHE'[s] = << >>)
        /\ (pc = "loop" /\ pos <= Len(ordered) =>
              LET e == _CACHE[ordered[pos][1]]
              IN  (\/ Len(e) = 1 /\ now_utc <= e[1].set_ts
                   \/ Len(e) = 1 /\ mono < e[1].retry_after)
                  => _CACHE' = _CACHE)
      ]_vars

\* the first satellite of the cycle was a cache hit and its entry is as it
\* was; the Fetcher was called for the second one, whose entry is new
C33_Witness ==
    /\ pc = "loop"
    /\ Len(trace) = 2
    /\ Len(trace[1].entry) = 1
    /\ now_utc <= trace[1].entry[1].set_ts
    /\ ~trace[1].called
    /\ trace[2].called
    /\ _CACHE[trace[1].sat] = trace[1].entry
    /\ _CACHE[trace[2].sat] # trace[2].entry

(***************************************************************************)
(* The cache entry between calls (SpecLong; holds in Spec and SpecBackoff). *)
(***************************************************************************)

\* C34: with a monotonic clock that is never negative, every cache entry has
\* fail_streak = 0 exactly if retry_after = 0; between calls fail_streak is
\* the number of Fetcher failures for the satellite since the last fetch
\* that returned a record, or since the reset; and an entry without a record
\* has set_ts = 0 and fail_streak >= 1.
C34_StreakCountsFailures ==
    mono >= 0 =>
      \A s \in SatIds :
        Len(_CACHE[s]) = 1 =>
          /\ (_CACHE[s][1].fail_streak = 0 <=> _CACHE[s][1].retry_after = 0)
          /\ (pc = "idle" => _CACHE[s][1].fail_streak = failures[s])
          /\ (_CACHE[s][1].pass_obj = << >> =>
                _CACHE[s][1].set_ts = 0 /\ _CACHE[s][1].fail_streak >= 1)

\* after two failures in a row one entry holds no record and a streak of 2;
\* the other satellite's entry holds a record and no streak
C34_TwoFailures ==
    /\ pc = "idle"
    /\ \E s, t \in SatIds :
         /\ Len(_CACHE[s]) = 1 /\ Len(_CACHE[t]) = 1
         /\ _CACHE[s][1].pass_obj = << >>
         /\ _CACHE[s][1].fail_streak = 2
         /\ failures[s] = 2
         /\ _CACHE[t][1].fail_streak = 0
         /\ _CACHE[t][1].retry_after = 0

(***************************************************************************)
(* Starvation (SpecLong; holds in Spec and SpecRR).                         *)
(***************************************************************************)

\* C31: with a fetch budget of at least 1, the satellite that is first in
\* the rotation is fetched in that cycle if it is neither a cache hit nor in
\* backoff; so no satellite begins N cycles in a row over a list of N
\* satellites neither a cache hit nor in backoff without the Fetcher being
\* called for it, whatever the other satellites do.
C31_NoStarvation ==
    /\ (Len(trace) >= 1 =>
          \/ trace[1].called
          \/ Len(trace[1].entry) = 1 /\ now_utc <= trace[1].entry[1].set_ts
          \/ Len(trace[1].entry) = 1 /\ trace[1].mono < trace[1].entry[1].retry_after)
    /\ \A s \in SatIds : unserved.count[s] = 0 \/ unserved.count[s] < unserved.n

\* a satellite has waited through a cycle in which another one was fetched
C31_Waiting ==
    /\ pc = "idle"
    /\ unserved.n = 3
    /\ \E s \in SatIds : unserved.count[s] = 2

(***************************************************************************)
(* Reports and the set time of the record (SpecUnordered).                  *)
(***************************************************************************)
\* iteration i of the running call put its satellite into the result
Reported(i) == \E j \in DOMAIN results : results[j][1] = trace[i].sat

\* the record iteration i obtained has a set timestamp, and now_utc is not past it
NotPastSet(i) ==
    /\ Len(trace[i].obj) = 1
    /\ trace[i].obj[1].set.utc_timestamp.k \in {"num", "str"}
    /\ now_utc <= trace[i].obj[1].set.utc_timestamp.v

\* the record iteration i obtained culminates no later than it sets
CulminatesBeforeSet(i) ==
    /\ Len(trace[i].obj) = 1
    /\ trace[i].obj[1].culmination.utc_timestamp.k \in {"num", "str"}
    /\ trace[i].obj[1].set.utc_timestamp.k \in {"num", "str"}
    /\ trace[i].obj[1].culmination.utc_timestamp.v <= trace[i].obj[1].set.utc_timestamp.v

\* C36 as stated: a satellite is in the result of a cycle only if now_utc <=
\* the set timestamp of the record the cycle used for it, whether that record
\* came from the cache or was fetched in the cycle.
C36_ReportedOnlyBeforeSet ==
    pc \in {"loop", "returned"} =>
        \A i \in DOMAIN trace : Reported(i) => NotPastSet(i)

\* C36 amended: a satellite is in the result of a cycle only if the cycle
\* obtained a record for it with a parseable set timestamp, and, when that
\* record's culmination timestamp is not later than its set timestamp,
\* now_utc <= the set timestamp; a record served from the cache is never past
\* its set timestamp, whatever the order of its points.
C36_ReportedOnlyBeforeSet_Ordered ==
    pc \in {"loop", "returned"} =>
        \A i \in DOMAIN trace :
            Reported(i) =>
                /\ Len(trace[i].obj) = 1
                /\ trace[i].obj[1].set.utc_timestamp.k \in {"num", "str"}
                /\ (CulminatesBeforeSet(i) \/ ~trace[i].called => NotPastSet(i))

\* C36 witness: at now_utc = 1050 a call has returned both satellites, one
\* from a record fetched in this cycle and one from a cached record, each
\* culminating before it sets.
C36_Witness ==
    /\ pc = "returned"
    /\ now_utc = 1050
    /\ Len(results) = 2
    /\ \A i \in DOMAIN trace : Reported(i) /\ CulminatesBeforeSet(i)
    /\ \E i \in DOMAIN trace : trace[i].called
    /\ \E i \in DOMAIN trace : ~trace[i].called

\* the case that refutes C36 as stated: a record fetched in this cycle, set
\* point stamped 1050, is reported at now_utc = 1060
C36_ReportedPastSet ==
    /\ pc = "returned"
    /\ now_utc = 1060
    /\ \E i \in DOMAIN trace :
          /\ Reported(i)
          /\ trace[i].called
          /\ trace[i].obj = << PassSetEarly >>

(***************************************************************************)
(* Successful fetches and backoff (Spec).                                   *)
(***************************************************************************)
\* C37: a successful fetch leaves retry_after = 0 in the satellite's entry,
\* and a satellite whose last fetch succeeded (fail_streak = 0) with a record
\* whose set timestamp is already < now_utc is fetched again in every
\* iteration that reaches it with fetch budget left, whatever the monotonic
\* clock reads, so with no minimum delay between the fetches.
C37_SuccessNeverBacksOff ==
    pc \in {"loop", "returned"} =>
        \A i \in DOMAIN trace :
            /\ (trace[i].called /\ Len(trace[i].obj) = 1 =>
                   /\ Len(_CACHE[trace[i].sat]) = 1
                   /\ _CACHE[trace[i].sat][1].retry_after = 0)
            /\ (/\ Len(trace[i].entry) = 1
                /\ trace[i].entry[1].fail_streak = 0
                /\ trace[i].entry[1].set_ts < now_utc
                /\ trace[i].budget > 0
                => trace[i].called)

\* C37 witness: at now_utc = 1201 a satellite whose entry already holds a
\* fetched pass that set at 1200 is fetched again while the monotonic clock
\* still reads 0, as at the earlier fetch, and the Fetcher returns the same
\* expired pass once more.
C37_Witness ==
    /\ pc \in {"loop", "returned"}
    /\ now_utc = 1201
    /\ \E i \in DOMAIN trace :
          /\ trace[i].called
          /\ trace[i].mono = 0
          /\ Len(trace[i].entry) = 1
          /\ trace[i].entry[1].fail_streak = 0
          /\ trace[i].entry[1].pass_obj = << PassGood >>
          /\ trace[i].entry[1].set_ts = 1200
          /\ trace[i].obj = << PassGood >>
          /\ _CACHE[trace[i].sat][1].retry_after = 0

(***************************************************************************)
(* Exceptions (SpecLong).                                                   *)
(***************************************************************************)

\* C10: no exception propagates out of visible_now, in any cache state a
\* sequence of cycles can reach, long runs of Fetcher failures included.
C10_NoExceptionEscapes == pc # "raised"

====
